---- MODULE Spec2Model ----
(***************************************************************************)
(* Attendance management system: the attendance tables and the handlers    *)
(* that write them (database/schema.sql, node-backend/server.js), the      *)
(* class scheduling resolver (/api/terminal/current-class) and the frame   *)
(* intake gateway (/api/process-frame), with the terminal page and the     *)
(* terminal server (web-attendance-terminal).                              *)
(*                                                                         *)
(* The specifications of this module:                                      *)
(*   Spec         the attendance database and its writers                  *)
(*   SpecSched    the current-class / upcoming-class lookup                *)
(*   SpecFrame    /api/process-frame requests and their recognizers        *)
(*   SpecGateway  SpecFrame started with a student and a class on record   *)
(*   SpecHub      the WebSocket hub: connections, messages and broadcast   *)
(*   SpecReport   /api/reports and /api/export/attendance                  *)
(*   SpecAuth     the bearer-protected routes behind authenticateToken     *)
(*   SpecPool     the handlers' use of the database connection pool        *)
(*   SpecUpload   the upload routes and the files they store               *)
(*   SpecTerm     the terminal page: login, auto mode, polls, camera       *)
(*   SpecLink     the terminal page's WebSocket and its reconnects         *)
(*   SpecRegistry the terminal server's registry of connections            *)
(* The append-only activity_logs table is written by several operations    *)
(* and read by none of the operations modelled here; it is not part of    *)
(* the state.                                                              *)
(***************************************************************************)
EXTENDS Integers, Sequences, FiniteSets, TLC

\* ------------------------------------------------------------------ bounds
MaxClock == 1
MaxClassId == 1
MaxAttId == 2
\* connections the pool may open (connectionLimit of dbConfig is 10); as
\* many DELETE /api/classes requests run side by side
MaxConnections == 2

\* ------------------------------------------------------------ input sets
StudentIds == {"S1"}
\* the name each student is registered with, letter by letter (a = 1)
NameBob == <<2, 15, 2>>
NameAnn == <<1, 14, 14>>
StudentName == [sid \in {"S1", "S2"} |->
                  IF sid = "S1" THEN NameBob ELSE NameAnn]
Statuses == {"present", "absent"}
\* request slots: one DELETE /api/students request and one DELETE /api/classes
\* request can be in flight at a time, next to any number of marks; with one
\* student delete in flight its final DELETE always finds the row it looked up
StudentDeleters == {"h1"}
ClassDeleters == {"h2"}
Handlers == StudentDeleters \cup ClassDeleters
NoPhoto == <<>>
NoArg == "-"
FrameReqs == {"r1", "r2"}
TerminalIds == {"T1", "T2"}
Sockets == {"w1", "w2"}
\* connections made to the terminal server
TermSockets == {"a", "b"}
NoSocket == "none"
\* requests that take connections from the pool
PostStudentReqs == {<<"post_student", 1>>}
DeleteStudentReqs == {<<"delete_student", 1>>}
DeleteClassReqs == {<<"delete_class", i>> : i \in 1..MaxConnections}
PoolReqs == PostStudentReqs \cup DeleteStudentReqs \cup DeleteClassReqs
NoPath == <<>>
\* (date, start_time, end_time) of the classes the admin creates
ClassInputs == {<<[year |-> 2024, month |-> 3, day |-> 1], 32400, 37800>>}

VARIABLES
  clock,        \* wall clock of the database server and of Date.now()
  students,     \* rows of table students: [student_id, name, photo_path]
  classes,      \* rows of table classes: [id, date, start_time, end_time]
  nextClassId,  \* AUTO_INCREMENT of classes.id
  attendance,   \* rows of table attendance
  nextAttId,    \* AUTO_INCREMENT of attendance.id
  files,        \* photo files on disk
  markResult,   \* outcome of the last MarkAttendance call
  pc,           \* position of each delete handler
  arg,          \* identifier the handler was called with
  photoPath,    \* the handler's local photoPath
  resp,         \* HTTP status the handler answered last (0: none yet)
  now,          \* the instant of the last current-class lookup (new Date())
  ccResp,       \* the body of the last /api/terminal/current-class answer
  submitted,    \* per frame request: has /api/process-frame been called
  proc,         \* per frame request: its recognizer process
  timer,        \* per frame request: its 10-second timer
  responseCompleted, \* per frame request: the handler's flag
  sent,         \* per frame request: the HTTP responses written, in order
  tempImagePath,\* per frame request: the handler's tempImagePath
  tempFiles,    \* files in the temp directory
  bcast,        \* number of attendance_marked broadcasts made
  crashed,      \* the backend process died of an uncaught exception
  connectedClients, \* the Set of WebSocket connections of the backend
  readyState,   \* per WebSocket connection: ws.readyState
  outbox,       \* per WebSocket connection: the messages sent to it
  sendFailed,   \* a ws.send() was made on a connection that is not open
  wsEvents,     \* per WebSocket connection: the events it has emitted
  wsTerminalId, \* per WebSocket connection: ws.terminalId
  repResp,      \* the last answer of the report or the export endpoint
  authResp      \* the status authenticateToken answered last (0: none)

dbVars == <<clock, students, classes, nextClassId, attendance, nextAttId,
            files, markResult, pc, arg, photoPath, resp>>

schedVars == <<now, ccResp>>

frameVars == <<submitted, proc, timer, responseCompleted, sent,
              tempImagePath, tempFiles, bcast, crashed>>

hubVars == <<connectedClients, readyState, outbox, sendFailed, wsEvents,
             wsTerminalId>>

apiVars == <<repResp, authResp>>

VARIABLES
  checkedOut,   \* connections of the pool that are not free
  connQueue,    \* requests queued in pool.getConnection(), in order
  ppc,          \* per pooled request: its handler's position
  parg,         \* per pooled request: the identifier it was called with
  pans          \* per pooled request: the status answered last (0: none)

poolVars == <<checkedOut, connQueue, ppc, parg, pans>>

VARIABLES
  upResp        \* the last answer of an upload route and the file it stored

upVars == <<upResp>>

VARIABLES
  isLoggedIn,         \* terminal: an operator is logged in
  isAutoMode,         \* terminal: the auto-mode switch
  classCheckInterval, \* terminal: the 30-second interval is set
  pollDue,            \* terminal: the interval's callback is due
  idleLeft,           \* terminal: 30-second periods until cameraIdleTimeout
                      \* fires (NoTimer: not pending)
  stream,             \* terminal: this.stream (null, or a MediaStream whose
                      \* tracks are live or stopped)
  currentClass,       \* terminal: id of this.currentClass (0: null)
  lastPoll,           \* terminal: what the last answered poll reported
  idleTicks           \* terminal: 30-second periods since the idle period
                      \* began (NoTimer: the camera is not idling)

termVars == <<isLoggedIn, isAutoMode, classCheckInterval, pollDue, idleLeft,
              stream, currentClass, lastPoll, idleTicks>>

VARIABLES
  sockets,      \* terminal: readyState of each WebSocket the page has made,
                \* in order (this.wsConnection is the last)
  reconnects,   \* terminal: seconds left of each pending reconnect timeout
  connStatus,   \* terminal: the connection status line
  backendUp     \* the backend accepts WebSocket connections

linkVars == <<sockets, reconnects, connStatus, backendUp>>

VARIABLES
  terminals,    \* terminal server: the Map terminalId -> connection
  tsReady,      \* terminal server: readyState of each connection
  tsId,         \* terminal server: the terminalId of each connection
  tsInbox       \* terminal server: messages sent to each connection

regVars == <<terminals, tsReady, tsId, tsInbox>>

extVars == <<poolVars, upVars, termVars, linkVars, regVars>>

nonDbVars == <<schedVars, frameVars, hubVars, apiVars, extVars>>

vars == <<dbVars, schedVars, frameVars, hubVars, apiVars, extVars>>

\* ------------------------------------------------------ database helpers
StudentRows(sid) == {s \in students : s.student_id = sid}
ClassRows(cid) == {c \in classes : c.id = cid}
StudentExists(sid) == StudentRows(sid) # {}
ClassExists(cid) == ClassRows(cid) # {}
RowsFor(sid, cid) ==
  {a \in attendance : a.student_id = sid /\ a.class_id = cid}
RowsOfStudent(sid) == {a \in attendance : a.student_id = sid}
RowsOfClass(cid) == {a \in attendance : a.class_id = cid}

\* attendance.class_id REFERENCES classes(id); student_id has no foreign key
ForeignKeysHold(sid, cid) == ClassExists(cid)

\* the table without its unique key: no insert ever meets a duplicate
DuplicateKeyNoUnique(sid, cid) == FALSE

\* UNIQUE KEY unique_student_class (student_id, class_id)
DuplicateKey(sid, cid) == RowsFor(sid, cid) # {}

\* an upsert whose update clause sets the status only
UpsertKeepsTimestamp(sid, cid, st) ==
  IF DuplicateKey(sid, cid)
  THEN {IF a \in RowsFor(sid, cid)
          THEN [a EXCEPT !.status = st]
          ELSE a : a \in attendance}
  ELSE attendance \cup
         {[id |-> nextAttId, student_id |-> sid, class_id |-> cid,
           status |-> st, marked_at |-> clock]}

\* INSERT ... ON DUPLICATE KEY UPDATE status = p_status,
\*                                    marked_at = CURRENT_TIMESTAMP
Upsert(sid, cid, st) ==
  IF DuplicateKey(sid, cid)
  THEN {IF a \in RowsFor(sid, cid)
          THEN [a EXCEPT !.status = st, !.marked_at = clock]
          ELSE a : a \in attendance}
  ELSE attendance \cup
         {[id |-> nextAttId, student_id |-> sid, class_id |-> cid,
           status |-> st, marked_at |-> clock]}

\* GET /api/attendance/class/:classId : attendance JOIN students
ClassAttendance(cid) ==
  {a \in RowsOfClass(cid) : StudentExists(a.student_id)}

\* ------------------------------------------------------------------ Init
DbInit ==
  /\ clock = 0
  /\ students = {}
  /\ classes = {}
  /\ nextClassId = 1
  /\ attendance = {}
  /\ nextAttId = 1
  /\ files = {}
  /\ markResult = "none"
  /\ pc = [h \in Handlers |-> "idle"]
  /\ arg = [h \in Handlers |-> NoArg]
  /\ photoPath = [h \in Handlers |-> NoPhoto]
  /\ resp = [h \in Handlers |-> 0]

NoLookup == [kind |-> "idle"]
Midnight == [year |-> 2024, month0 |-> 0, day |-> 1, tod |-> 0]

SchedIdle ==
  /\ now = Midnight
  /\ ccResp = NoLookup

FrameIdle ==
  /\ submitted = [r \in FrameReqs |-> FALSE]
  /\ proc = [r \in FrameReqs |-> "none"]
  /\ timer = [r \in FrameReqs |-> "none"]
  /\ responseCompleted = [r \in FrameReqs |-> FALSE]
  /\ sent = [r \in FrameReqs |-> <<>>]
  /\ tempImagePath = [r \in FrameReqs |-> NoPath]
  /\ tempFiles = {}
  /\ bcast = 0
  /\ crashed = FALSE

HubIdle ==
  /\ connectedClients = {}
  /\ readyState = [w \in Sockets |-> "NONE"]
  /\ outbox = [w \in Sockets |-> <<>>]
  /\ sendFailed = FALSE
  /\ wsEvents = [w \in Sockets |-> {}]
  /\ wsTerminalId = [w \in Sockets |-> NoArg]

NoAnswer == [kind |-> "none"]

PoolIdle ==
  /\ checkedOut = 0
  /\ connQueue = <<>>
  /\ ppc = [q \in PoolReqs |-> "idle"]
  /\ parg = [q \in PoolReqs |-> NoArg]
  /\ pans = [q \in PoolReqs |-> 0]

NoUpload == [status |-> 0, path |-> NoPath]

UploadIdle == upResp = NoUpload

NoTimer == 0 - 1

\* new AttendanceTerminal(): the constructor ends with startAutoScheduling()
TerminalConstructed ==
  /\ isLoggedIn = FALSE
  /\ isAutoMode = FALSE
  /\ classCheckInterval = TRUE
  /\ pollDue = FALSE
  /\ idleLeft = NoTimer
  /\ stream = "null"
  /\ currentClass = 0
  /\ lastPoll = "never"
  /\ idleTicks = NoTimer

\* the constructor's connectWebSocket(): one WebSocket, connecting
LinkConstructed ==
  /\ sockets = <<"CONNECTING">>
  /\ reconnects = <<>>
  /\ connStatus = "initial"
  /\ backendUp = TRUE

\* const terminals = new Map()
RegistryEmpty ==
  /\ terminals = <<>>
  /\ tsReady = [s \in TermSockets |-> "NONE"]
  /\ tsId = [s \in TermSockets |-> NoArg]
  /\ tsInbox = [s \in TermSockets |-> <<>>]

ExtIdle ==
  /\ PoolIdle
  /\ UploadIdle
  /\ TerminalConstructed
  /\ LinkConstructed
  /\ RegistryEmpty

ApiIdle ==
  /\ repResp = NoAnswer
  /\ authResp = 0

Init ==
  DbInit /\ SchedIdle /\ FrameIdle /\ HubIdle /\ ApiIdle /\ ExtIdle

\* --------------------------------------------------------------- actions
Tick ==
  /\ clock < MaxClock
  /\ clock' = clock + 1
  /\ UNCHANGED <<students, classes, nextClassId, attendance, nextAttId,
                 files, markResult, pc, arg, photoPath, resp>>
  /\ UNCHANGED nonDbVars

\* CALL MarkAttendance(p_student_id, p_class_id, p_status): one transaction;
\* a foreign-key failure rolls back and resignals
MarkAttendance(sid, cid, st) ==
  /\ UNCHANGED <<clock, students, classes, nextClassId, files,
                 pc, arg, photoPath, resp>>
  /\ UNCHANGED nonDbVars
  /\ IF ForeignKeysHold(sid, cid)
     THEN /\ DuplicateKey(sid, cid) \/ nextAttId <= MaxAttId
          /\ attendance' = Upsert(sid, cid, st)
          /\ nextAttId' = IF DuplicateKey(sid, cid) THEN nextAttId
                          ELSE nextAttId + 1
          /\ markResult' = IF DuplicateKey(sid, cid) THEN "updated"
                           ELSE "inserted"
     ELSE /\ markResult' = "error"
          /\ UNCHANGED <<attendance, nextAttId>>

\* POST /api/students : a duplicate student_id is answered 400
AddStudent(sid) ==
  /\ students' = IF StudentExists(sid) THEN students
                 ELSE students \cup {[student_id |-> sid,
                                      name |-> StudentName[sid],
                                      photo_path |-> NoPhoto]}
  /\ UNCHANGED <<clock, classes, nextClassId, attendance, nextAttId, files,
                 markResult, pc, arg, photoPath, resp>>
  /\ UNCHANGED nonDbVars

\* multer filename: `${studentId}-${Date.now()}${ext}`
UploadPath(sid) == <<sid, clock>>

\* POST /api/students/with-photo : the photo is on disk before the insert;
\* a failed insert unlinks it
AddStudentWithPhoto(sid) ==
  /\ IF StudentExists(sid)
     THEN /\ files' = files \ {UploadPath(sid)}
          /\ UNCHANGED students
     ELSE /\ files' = files \cup {UploadPath(sid)}
          /\ students' = students \cup {[student_id |-> sid,
                                         name |-> StudentName[sid],
                                         photo_path |-> UploadPath(sid)]}
  /\ UNCHANGED <<clock, classes, nextClassId, attendance, nextAttId,
                 markResult, pc, arg, photoPath, resp>>
  /\ UNCHANGED nonDbVars

\* POST /api/classes
AddClass(d, st, et) ==
  /\ nextClassId <= MaxClassId
  /\ classes' = classes \cup {[id |-> nextClassId, date |-> d,
                               start_time |-> st, end_time |-> et]}
  /\ nextClassId' = nextClassId + 1
  /\ UNCHANGED <<clock, students, attendance, nextAttId, files,
                 markResult, pc, arg, photoPath, resp>>
  /\ UNCHANGED nonDbVars

\* a lookup that does not return on an empty result
DsLookupNoReturn(h, sid) ==
  /\ pc[h] = "idle"
  /\ pc' = [pc EXCEPT ![h] = "ds_del_att"]
  /\ arg' = [arg EXCEPT ![h] = sid]
  /\ photoPath' = [photoPath EXCEPT ![h] =
                     IF StudentExists(sid)
                     THEN (CHOOSE s \in StudentRows(sid) : TRUE).photo_path
                     ELSE NoPhoto]
  /\ resp' = [resp EXCEPT ![h] = 0]
  /\ UNCHANGED <<clock, students, classes, nextClassId, attendance,
                 nextAttId, files, markResult>>
  /\ UNCHANGED nonDbVars

\* DELETE /api/students/:studentId, first statement: SELECT photo_path
DsLookup(h, sid) ==
  /\ pc[h] = "idle"
  /\ IF ~StudentExists(sid)
     THEN /\ resp' = [resp EXCEPT ![h] = 404]
          /\ UNCHANGED <<pc, arg, photoPath>>
     ELSE /\ pc' = [pc EXCEPT ![h] = "ds_del_att"]
          /\ arg' = [arg EXCEPT ![h] = sid]
          /\ photoPath' = [photoPath EXCEPT ![h] =
                             (CHOOSE s \in StudentRows(sid) : TRUE).photo_path]
          /\ resp' = [resp EXCEPT ![h] = 0]
  /\ UNCHANGED <<clock, students, classes, nextClassId, attendance,
                 nextAttId, files, markResult>>
  /\ UNCHANGED nonDbVars

\* DELETE FROM attendance WHERE student_id = ?
DsDeleteAttendance(h) ==
  /\ pc[h] = "ds_del_att"
  /\ attendance' = attendance \ RowsOfStudent(arg[h])
  /\ pc' = [pc EXCEPT ![h] = "ds_del_stu"]
  /\ UNCHANGED <<clock, students, classes, nextClassId, nextAttId, files,
                 markResult, arg, photoPath, resp>>
  /\ UNCHANGED nonDbVars

\* DELETE FROM students WHERE student_id = ?, then unlink the photo and
\* answer by affectedRows
DsDeleteStudent(h) ==
  /\ pc[h] = "ds_del_stu"
  /\ students' = students \ StudentRows(arg[h])
  /\ files' = IF photoPath[h] # NoPhoto THEN files \ {photoPath[h]}
              ELSE files
  /\ resp' = [resp EXCEPT ![h] =
                IF StudentRows(arg[h]) # {} THEN 200 ELSE 404]
  /\ pc' = [pc EXCEPT ![h] = "idle"]
  /\ arg' = [arg EXCEPT ![h] = NoArg]
  /\ photoPath' = [photoPath EXCEPT ![h] = NoPhoto]
  /\ UNCHANGED <<clock, classes, nextClassId, attendance, nextAttId,
                 markResult>>
  /\ UNCHANGED nonDbVars

\* DELETE /api/classes/:id, first statement: SELECT class_name
DcLookup(h, cid) ==
  /\ pc[h] = "idle"
  /\ IF ~ClassExists(cid)
     THEN /\ resp' = [resp EXCEPT ![h] = 404]
          /\ UNCHANGED <<pc, arg>>
     ELSE /\ pc' = [pc EXCEPT ![h] = "dc_del_att"]
          /\ arg' = [arg EXCEPT ![h] = cid]
          /\ resp' = [resp EXCEPT ![h] = 0]
  /\ UNCHANGED <<clock, students, classes, nextClassId, attendance,
                 nextAttId, files, markResult, photoPath>>
  /\ UNCHANGED nonDbVars

\* DELETE FROM attendance WHERE class_id = ?
DcDeleteAttendance(h) ==
  /\ pc[h] = "dc_del_att"
  /\ attendance' = attendance \ RowsOfClass(arg[h])
  /\ pc' = [pc EXCEPT ![h] = "dc_del_cls"]
  /\ UNCHANGED <<clock, students, classes, nextClassId, nextAttId, files,
                 markResult, arg, photoPath, resp>>
  /\ UNCHANGED nonDbVars

\* the class delete against a foreign key without ON DELETE CASCADE checks
DcDeleteClassNoCascade(h) ==
  /\ pc[h] = "dc_del_cls"
  /\ classes' = classes \ ClassRows(arg[h])
  /\ pc' = [pc EXCEPT ![h] = "dc_log"]
  /\ UNCHANGED <<clock, students, nextClassId, attendance, nextAttId, files,
                 markResult, arg, photoPath, resp>>
  /\ UNCHANGED nonDbVars

\* DELETE FROM classes WHERE id = ? ; attendance.class_id ON DELETE CASCADE
DcDeleteClass(h) ==
  /\ pc[h] = "dc_del_cls"
  /\ classes' = classes \ ClassRows(arg[h])
  /\ attendance' = attendance \ RowsOfClass(arg[h])
  /\ pc' = [pc EXCEPT ![h] = "dc_log"]
  /\ UNCHANGED <<clock, students, nextClassId, nextAttId, files,
                 markResult, arg, photoPath, resp>>
  /\ UNCHANGED nonDbVars

\* await logActivity(...) ; connection.release() ; res.json(success)
DcRespond(h) ==
  /\ pc[h] = "dc_log"
  /\ resp' = [resp EXCEPT ![h] = 200]
  /\ pc' = [pc EXCEPT ![h] = "idle"]
  /\ arg' = [arg EXCEPT ![h] = NoArg]
  /\ UNCHANGED <<clock, students, classes, nextClassId, attendance,
                 nextAttId, files, markResult, photoPath>>
  /\ UNCHANGED nonDbVars

Next ==
  \/ Tick
  \/ \E sid \in StudentIds, cid \in 1..MaxClassId, st \in Statuses :
       MarkAttendance(sid, cid, st)
  \/ \E sid \in StudentIds : AddStudent(sid)
  \/ \E sid \in StudentIds : AddStudentWithPhoto(sid)
  \/ \E c \in ClassInputs : AddClass(c[1], c[2], c[3])
  \/ \E h \in StudentDeleters, sid \in StudentIds : DsLookup(h, sid)
  \/ \E h \in StudentDeleters : DsDeleteAttendance(h)
  \/ \E h \in StudentDeleters : DsDeleteStudent(h)
  \/ \E h \in ClassDeleters, cid \in 1..MaxClassId : DcLookup(h, cid)
  \/ \E h \in ClassDeleters : DcDeleteAttendance(h)
  \/ \E h \in ClassDeleters : DcDeleteClass(h)
  \/ \E h \in ClassDeleters : DcRespond(h)

Spec == Init /\ [][Next]_vars

\* ============================================ class scheduling resolver
\* bound of the timetable the lookup is applied to
MaxSchedClasses == 2

\* the look-ahead of the upcoming query: 60*60*1000 ms, in seconds
LookaheadSeconds == 3600

DayLength == 24 * 3600

\* times of day, in seconds since midnight: 09:00 09:30 10:30 23:45
SchedTimes == {32400, 34200, 37800, 85500}
SchedDates == {[year |-> 2024, month |-> 2, day |-> 29],
               [year |-> 2024, month |-> 3, day |-> 1]}
\* instants of the lookup; month0 is Date.getMonth(), counted from 0
\* 08:30 09:00 09:15 10:30 10:31 23:30
NowTimes == {30600, 32400, 33300, 37800, 37860, 84600}
Nows == {[year |-> 2024, month0 |-> m, day |-> d, tod |-> t] :
           m \in {2}, d \in {1}, t \in NowTimes}
        \cup {[year |-> 2024, month0 |-> 1, day |-> 29, tod |-> 33300]}

\* String(n).padStart(2, '0') and the two-digit fields of DATE_FORMAT and
\* TIME_FORMAT
Pad2(n) == <<n \div 10, n % 10>>

\* now.toTimeString().slice(0, 8) and TIME_FORMAT(t, '%H:%i:%s'): 'HH:MM:SS'
FormatTime(t) ==
  Pad2(t \div 3600) \o Pad2((t % 3600) \div 60) \o Pad2(t % 60)

\* DATE_FORMAT(c.date, '%Y-%m-%d')
SqlDateFormat(d) == <<d.year>> \o Pad2(d.month) \o Pad2(d.day)

\* now.getFullYear() + '-' + pad(now.getMonth() + 1) + '-' + pad(now.getDate())
JsLocalDate(n) == <<n.year>> \o Pad2(n.month0 + 1) \o Pad2(n.day)

\* comparison of two strings, character by character
StrLess(a, b) ==
  \/ \E i \in 1..Len(a) :
       /\ i <= Len(b)
       /\ a[i] < b[i]
       /\ \A j \in 1..(i - 1) : a[j] = b[j]
  \/ /\ Len(a) < Len(b)
     /\ \A j \in 1..Len(a) : a[j] = b[j]
StrLeq(a, b) == a = b \/ StrLess(a, b)

\* new Date(now.getTime() + 60*60*1000).toTimeString().slice(0, 8)
NextHour(n) == FormatTime((n.tod + LookaheadSeconds) % DayLength)

\* the first query with its window closed one second early
CurrentMatchesEndExclusive(n) ==
  {c \in classes :
     /\ SqlDateFormat(c.date) = JsLocalDate(n)
     /\ StrLeq(FormatTime(c.start_time), FormatTime(n.tod))
     /\ StrLess(FormatTime(n.tod), FormatTime(c.end_time))}

\* WHERE date = ? AND start_time <= ? AND end_time >= ?  (first query)
CurrentMatches(n) ==
  {c \in classes :
     /\ SqlDateFormat(c.date) = JsLocalDate(n)
     /\ StrLeq(FormatTime(c.start_time), FormatTime(n.tod))
     /\ StrLeq(FormatTime(n.tod), FormatTime(c.end_time))}

\* WHERE date = ? AND start_time > ? AND start_time <= ?  (second query)
UpcomingMatches(n) ==
  {c \in classes :
     /\ SqlDateFormat(c.date) = JsLocalDate(n)
     /\ StrLess(FormatTime(n.tod), FormatTime(c.start_time))
     /\ StrLeq(FormatTime(c.start_time), NextHour(n))}

\* ORDER BY c.start_time ASC LIMIT 1 : any row with the least start_time
FirstByStartTime(S) ==
  {c \in S : \A d \in S : c.start_time <= d.start_time}

\* GET /api/terminal/current-class
GetCurrentClass(n) ==
  /\ now' = n
  /\ IF CurrentMatches(n) # {}
     THEN \E c \in FirstByStartTime(CurrentMatches(n)) :
            ccResp' = [kind |-> "current", class |-> c]
     ELSE IF UpcomingMatches(n) # {}
     THEN \E c \in FirstByStartTime(UpcomingMatches(n)) :
            ccResp' = [kind |-> "upcoming", class |-> c]
     ELSE ccResp' = [kind |-> "none"]
  /\ UNCHANGED <<dbVars, frameVars, hubVars, apiVars, extVars>>

\* timetables of up to MaxSchedClasses classes
SchedShapes == SchedDates \X SchedTimes \X SchedTimes
Timetables ==
  UNION {{{[id |-> i, date |-> f[i][1], start_time |-> f[i][2],
            end_time |-> f[i][3]] : i \in 1..k} :
           f \in [1..k -> SchedShapes]} : k \in 0..MaxSchedClasses}

SchedInit ==
  /\ clock = 0
  /\ students = {}
  /\ classes \in Timetables
  /\ nextClassId = Cardinality(classes) + 1
  /\ attendance = {}
  /\ nextAttId = 1
  /\ files = {}
  /\ markResult = "none"
  /\ pc = [h \in Handlers |-> "idle"]
  /\ arg = [h \in Handlers |-> NoArg]
  /\ photoPath = [h \in Handlers |-> NoPhoto]
  /\ resp = [h \in Handlers |-> 0]
  /\ SchedIdle
  /\ FrameIdle
  /\ HubIdle
  /\ ApiIdle
  /\ ExtIdle

SchedNext == \E n \in Nows : GetCurrentClass(n)

SpecSched == SchedInit /\ [][SchedNext]_vars

\* ============================================ real-time broadcast hub
\* bound of the messages sent to one connection
MaxOutbox == 3

\* the events broadcast() is called with
HubEvents == {"attendance_marked"}

\* the outbound side of the hub as the send calls change it
HubOut == [box |-> outbox, failed |-> sendFailed]

\* ws.send(data): the message goes out on an open connection; on any other
\* the call fails
WsSend(st, w, msg) ==
  IF readyState[w] = "OPEN"
  THEN [st EXCEPT !.box[w] = Append(@, msg)]
  ELSE [st EXCEPT !.failed = TRUE]

\* one ws.send(msg) for each connection of S
RECURSIVE SendToEach(_, _, _)
SendToEach(S, st, msg) ==
  IF S = {} THEN st
  ELSE LET w == CHOOSE x \in S : TRUE
       IN SendToEach(S \ {w}, WsSend(st, w, msg), msg)

\* a broadcast that does not look at readyState
broadcastUnchecked(st, msg) == SendToEach(connectedClients, st, msg)

\* connectedClients.forEach(ws => { if (ws.readyState === WebSocket.OPEN)
\*                                    ws.send(JSON.stringify(message)) })
broadcast(st, msg) ==
  SendToEach({w \in connectedClients : readyState[w] = "OPEN"}, st, msg)

\* result.attendance_marked.forEach(attendance => broadcast({...}))
RECURSIVE BroadcastEach(_, _, _)
BroadcastEach(n, st, msg) ==
  IF n = 0 THEN st ELSE BroadcastEach(n - 1, broadcast(st, msg), msg)

\* wss.on('connection'): the connection is added and greeted
WsConnection(w) ==
  /\ readyState[w] = "NONE"
  /\ connectedClients' = connectedClients \cup {w}
  /\ readyState' = [readyState EXCEPT ![w] = "OPEN"]
  /\ outbox' = [outbox EXCEPT ![w] = Append(@, "connection_established")]
  /\ UNCHANGED <<sendFailed, wsEvents, wsTerminalId>>
  /\ UNCHANGED <<dbVars, schedVars, frameVars, apiVars, extVars>>

\* the closing handshake of a connection has begun; no event yet
WsClosing(w) ==
  /\ readyState[w] = "OPEN"
  /\ readyState' = [readyState EXCEPT ![w] = "CLOSING"]
  /\ UNCHANGED <<connectedClients, outbox, sendFailed, wsEvents,
                 wsTerminalId>>
  /\ UNCHANGED <<dbVars, schedVars, frameVars, apiVars, extVars>>

\* an error handler that only logs
WsErrorLogsOnly(w) ==
  /\ readyState[w] \in {"OPEN", "CLOSING"}
  /\ readyState' = [readyState EXCEPT ![w] = "CLOSING"]
  /\ wsEvents' = [wsEvents EXCEPT ![w] = @ \cup {"error"}]
  /\ UNCHANGED <<connectedClients, outbox, sendFailed, wsTerminalId>>
  /\ UNCHANGED <<dbVars, schedVars, frameVars, apiVars, extVars>>

\* ws.on('error'): connectedClients.delete(ws); the connection is closing
WsError(w) ==
  /\ readyState[w] \in {"OPEN", "CLOSING"}
  /\ readyState' = [readyState EXCEPT ![w] = "CLOSING"]
  /\ connectedClients' = connectedClients \ {w}
  /\ wsEvents' = [wsEvents EXCEPT ![w] = @ \cup {"error"}]
  /\ UNCHANGED <<outbox, sendFailed, wsTerminalId>>
  /\ UNCHANGED <<dbVars, schedVars, frameVars, apiVars, extVars>>

\* ws.on('close'): connectedClients.delete(ws)
WsClose(w) ==
  /\ readyState[w] \in {"OPEN", "CLOSING"}
  /\ readyState' = [readyState EXCEPT ![w] = "CLOSED"]
  /\ connectedClients' = connectedClients \ {w}
  /\ wsEvents' = [wsEvents EXCEPT ![w] = @ \cup {"close"}]
  /\ UNCHANGED <<outbox, sendFailed, wsTerminalId>>
  /\ UNCHANGED <<dbVars, schedVars, frameVars, apiVars, extVars>>

\* a call of broadcast(message)
BroadcastCall(msg) ==
  /\ \A w \in Sockets : Len(outbox[w]) < MaxOutbox
  /\ outbox' = broadcast(HubOut, msg).box
  /\ sendFailed' = broadcast(HubOut, msg).failed
  /\ UNCHANGED <<connectedClients, readyState, wsEvents, wsTerminalId>>
  /\ UNCHANGED <<dbVars, schedVars, frameVars, apiVars, extVars>>

\* the frames a client sends: text that JSON.parse accepts or rejects, and
\* for accepted text the value of data.type (NoArg: the value has none)
InboundMessages ==
  {[json |-> TRUE, type |-> t, terminal_id |-> NoArg] :
     t \in {"ping", "heartbeat", NoArg}}
    \cup {[json |-> TRUE, type |-> "terminal_register", terminal_id |-> t] :
            t \in {"T1"}}
    \cup {[json |-> FALSE, type |-> NoArg, terminal_id |-> NoArg]}

\* a handler that answers every frame it can parse
OnMessageAnswersAll(st, w, m) ==
  IF m.json THEN WsSend(st, w, "pong") ELSE st

\* try { data = JSON.parse(message); switch (data.type) { case 'ping':
\*   ws.send(JSON.stringify({ type: 'pong' })) } } catch (error) { log }
OnMessage(st, w, m) ==
  IF m.json /\ m.type = "ping" THEN WsSend(st, w, "pong") ELSE st

\* ws.on('message')
WsMessage(w, m) ==
  /\ readyState[w] = "OPEN"
  /\ Len(outbox[w]) < MaxOutbox
  /\ outbox' = OnMessage(HubOut, w, m).box
  /\ sendFailed' = OnMessage(HubOut, w, m).failed
  /\ wsTerminalId' = IF m.json /\ m.type = "terminal_register"
                     THEN [wsTerminalId EXCEPT ![w] = m.terminal_id]
                     ELSE wsTerminalId
  /\ UNCHANGED <<connectedClients, readyState, wsEvents>>
  /\ UNCHANGED <<dbVars, schedVars, frameVars, apiVars, extVars>>

HubNext ==
  \/ \E w \in Sockets : WsConnection(w)
  \/ \E w \in Sockets, m \in InboundMessages : WsMessage(w, m)
  \/ \E w \in Sockets : WsClosing(w)
  \/ \E w \in Sockets : WsError(w)
  \/ \E w \in Sockets : WsClose(w)
  \/ \E msg \in HubEvents : BroadcastCall(msg)

SpecHub == Init /\ [][HubNext]_vars

\* ============================================ frame intake gateway
\* bound of the marks one recognition result lists
MaxMarks == 1

\* what the recognizer has done when its close event arrives: exit code and
\* standard output (a JSON result listing some marks, or unparsable text)
RecognizerResults ==
  {[code |-> 0, out |-> "json", marks |-> k] : k \in 0..MaxMarks}
    \cup {[code |-> 0, out |-> "garbage", marks |-> 0],
          [code |-> 1, out |-> "garbage", marks |-> 0]}

\* path.join(__dirname, 'temp', `frame_${terminal_id}_${Date.now()}.jpg`)
TempImagePath(tid) == <<tid, clock>>

\* a guard that never finds the response sent
NeverResponded(r) == FALSE

\* if (res.headersSent || responseCompleted) return;
AlreadyResponded(r) == Len(sent[r]) > 0 \/ responseCompleted[r]

\* if (!image || !class_id || !terminal_id) return res.status(400)
FrameBadRequest(r) ==
  /\ ~crashed
  /\ ~submitted[r]
  /\ submitted' = [submitted EXCEPT ![r] = TRUE]
  /\ sent' = [sent EXCEPT ![r] = Append(@, 400)]
  /\ UNCHANGED <<proc, timer, responseCompleted, tempImagePath, tempFiles,
                 bcast, crashed>>
  /\ UNCHANGED <<dbVars, schedVars, hubVars, apiVars, extVars>>

\* the frame is written, the recognizer is spawned, the close handler and
\* the timer are installed
SubmitFrame(r, tid) ==
  /\ ~crashed
  /\ ~submitted[r]
  /\ submitted' = [submitted EXCEPT ![r] = TRUE]
  /\ tempImagePath' = [tempImagePath EXCEPT ![r] = TempImagePath(tid)]
  /\ tempFiles' = tempFiles \cup {TempImagePath(tid)}
  /\ proc' = [proc EXCEPT ![r] = "running"]
  /\ timer' = [timer EXCEPT ![r] = "armed"]
  /\ UNCHANGED <<responseCompleted, sent, bcast, crashed>>
  /\ UNCHANGED <<dbVars, schedVars, hubVars, apiVars, extVars>>

\* the frame is written and spawn() throws: the handler's catch answers 500
SubmitFrameSpawnThrows(r, tid) ==
  /\ ~crashed
  /\ ~submitted[r]
  /\ submitted' = [submitted EXCEPT ![r] = TRUE]
  /\ tempImagePath' = [tempImagePath EXCEPT ![r] = TempImagePath(tid)]
  /\ tempFiles' = tempFiles \cup {TempImagePath(tid)}
  /\ sent' = [sent EXCEPT ![r] = Append(@, 500)]
  /\ UNCHANGED <<proc, timer, responseCompleted, bcast, crashed>>
  /\ UNCHANGED <<dbVars, schedVars, hubVars, apiVars, extVars>>

\* the frame is written and spawn() returns a child that could not be
\* started (no python on the path): its 'error' event is queued, the close
\* handler and the timer are installed
SubmitFrameSpawnFails(r, tid) ==
  /\ ~crashed
  /\ ~submitted[r]
  /\ submitted' = [submitted EXCEPT ![r] = TRUE]
  /\ tempImagePath' = [tempImagePath EXCEPT ![r] = TempImagePath(tid)]
  /\ tempFiles' = tempFiles \cup {TempImagePath(tid)}
  /\ proc' = [proc EXCEPT ![r] = "spawn_failed"]
  /\ timer' = [timer EXCEPT ![r] = "armed"]
  /\ UNCHANGED <<responseCompleted, sent, bcast, crashed>>
  /\ UNCHANGED <<dbVars, schedVars, hubVars, apiVars, extVars>>

\* the child's 'error' event: pythonProcess has no 'error' listener, so the
\* event is thrown as an uncaught exception and the backend exits
SpawnErrorEvent(r) ==
  /\ ~crashed
  /\ proc[r] = "spawn_failed"
  /\ crashed' = TRUE
  /\ UNCHANGED <<submitted, proc, timer, responseCompleted, sent,
                 tempImagePath, tempFiles, bcast>>
  /\ UNCHANGED <<dbVars, schedVars, hubVars, apiVars, extVars>>

\* a close handler that broadcasts the listed marks before it looks whether
\* the request has been answered
ProcessCloseBroadcastsFirst(r, res) ==
  /\ ~crashed
  /\ proc[r] \in {"running", "signalled"}
  /\ proc' = [proc EXCEPT ![r] = "closed"]
  /\ tempFiles' = tempFiles \ {tempImagePath[r]}
  /\ IF res.code = 0 /\ res.out = "json"
     THEN /\ bcast' = bcast + res.marks
          /\ outbox' = BroadcastEach(res.marks, HubOut,
                                     "attendance_marked").box
          /\ sendFailed' = BroadcastEach(res.marks, HubOut,
                                         "attendance_marked").failed
     ELSE UNCHANGED <<bcast, outbox, sendFailed>>
  /\ IF AlreadyResponded(r)
     THEN UNCHANGED <<responseCompleted, timer, sent>>
     ELSE /\ responseCompleted' = [responseCompleted EXCEPT ![r] = TRUE]
          /\ timer' = [timer EXCEPT ![r] = "cleared"]
          /\ sent' = [sent EXCEPT ![r] =
                        Append(@, IF res.code = 0 /\ res.out = "json"
                                  THEN 200 ELSE 500)]
  /\ UNCHANGED <<submitted, tempImagePath, crashed>>
  /\ UNCHANGED <<connectedClients, readyState, wsEvents, wsTerminalId>>
  /\ UNCHANGED <<dbVars, schedVars, apiVars, extVars>>

\* pythonProcess.on('close', (code) => ...)
ProcessClose(r, res) ==
  /\ ~crashed
  /\ proc[r] \in {"running", "signalled"}
  /\ proc' = [proc EXCEPT ![r] = "closed"]
  /\ tempFiles' = tempFiles \ {tempImagePath[r]}
  /\ IF AlreadyResponded(r)
     THEN UNCHANGED <<responseCompleted, timer, sent, bcast,
                      outbox, sendFailed>>
     ELSE /\ responseCompleted' = [responseCompleted EXCEPT ![r] = TRUE]
          /\ timer' = [timer EXCEPT ![r] = "cleared"]
          /\ IF res.code = 0 /\ res.out = "json"
             THEN /\ bcast' = bcast + res.marks
                  /\ outbox' = BroadcastEach(res.marks, HubOut,
                                             "attendance_marked").box
                  /\ sendFailed' = BroadcastEach(res.marks, HubOut,
                                                 "attendance_marked").failed
                  /\ sent' = [sent EXCEPT ![r] = Append(@, 200)]
             ELSE /\ sent' = [sent EXCEPT ![r] = Append(@, 500)]
                  /\ UNCHANGED <<bcast, outbox, sendFailed>>
  /\ UNCHANGED <<submitted, tempImagePath, crashed>>
  /\ UNCHANGED <<connectedClients, readyState, wsEvents, wsTerminalId>>
  /\ UNCHANGED <<dbVars, schedVars, apiVars, extVars>>

\* a timer callback that answers without pythonProcess.kill()
FrameTimeoutNoKill(r) ==
  /\ ~crashed
  /\ timer[r] = "armed"
  /\ timer' = [timer EXCEPT ![r] = "fired"]
  /\ IF AlreadyResponded(r)
     THEN UNCHANGED <<responseCompleted, tempFiles, sent>>
     ELSE /\ responseCompleted' = [responseCompleted EXCEPT ![r] = TRUE]
          /\ tempFiles' = tempFiles \ {tempImagePath[r]}
          /\ sent' = [sent EXCEPT ![r] = Append(@, 500)]
  /\ UNCHANGED <<submitted, proc, tempImagePath, bcast, crashed>>
  /\ UNCHANGED <<dbVars, schedVars, hubVars, apiVars, extVars>>

\* setTimeout(() => ..., 10000)
FrameTimeout(r) ==
  /\ ~crashed
  /\ timer[r] = "armed"
  /\ timer' = [timer EXCEPT ![r] = "fired"]
  /\ IF AlreadyResponded(r)
     THEN UNCHANGED <<responseCompleted, proc, tempFiles, sent>>
     ELSE /\ responseCompleted' = [responseCompleted EXCEPT ![r] = TRUE]
          /\ proc' = [proc EXCEPT ![r] =
                        IF @ = "running" THEN "signalled" ELSE @]
          /\ tempFiles' = tempFiles \ {tempImagePath[r]}
          /\ sent' = [sent EXCEPT ![r] = Append(@, 500)]
  /\ UNCHANGED <<submitted, tempImagePath, bcast, crashed>>
  /\ UNCHANGED <<dbVars, schedVars, hubVars, apiVars, extVars>>

FrameNext ==
  \/ Tick
  \/ \E r \in FrameReqs : FrameBadRequest(r)
  \/ \E r \in FrameReqs, tid \in TerminalIds : SubmitFrame(r, tid)
  \/ \E r \in FrameReqs, tid \in TerminalIds : SubmitFrameSpawnThrows(r, tid)
  \/ \E r \in FrameReqs, tid \in TerminalIds : SubmitFrameSpawnFails(r, tid)
  \/ \E r \in FrameReqs : SpawnErrorEvent(r)
  \/ \E r \in FrameReqs, res \in RecognizerResults : ProcessClose(r, res)
  \/ \E r \in FrameReqs : FrameTimeout(r)

SpecFrame == Init /\ [][FrameNext]_vars

\* the gateway in front of a database that holds a student and a class
GatewayInit ==
  /\ clock = 0
  /\ students = {[student_id |-> "S1", name |-> StudentName["S1"],
                  photo_path |-> NoPhoto]}
  /\ classes = {[id |-> 1, date |-> [year |-> 2024, month |-> 3, day |-> 1],
                 start_time |-> 32400, end_time |-> 37800]}
  /\ nextClassId = 2
  /\ attendance = {}
  /\ nextAttId = 1
  /\ files = {}
  /\ markResult = "none"
  /\ pc = [h \in Handlers |-> "idle"]
  /\ arg = [h \in Handlers |-> NoArg]
  /\ photoPath = [h \in Handlers |-> NoPhoto]
  /\ resp = [h \in Handlers |-> 0]
  /\ SchedIdle
  /\ FrameIdle
  /\ HubIdle
  /\ ApiIdle
  /\ ExtIdle

SpecGateway == GatewayInit /\ [][FrameNext]_vars

\* ============================================ reports and export
\* an absent query parameter (undefined): a date, a student identifier
NoDate == <<>>
NoStudentId == "undefined"

ReportStudentIds == {"S1", "S2"}
ReportStudents ==
  {[student_id |-> sid, name |-> StudentName[sid], photo_path |-> NoPhoto] :
     sid \in ReportStudentIds}

\* classes of 2022-12-31 09:00, 2024-03-01 10:30 and 2024-03-01 09:00
ReportClasses ==
  {[id |-> 1, date |-> [year |-> 2022, month |-> 12, day |-> 31],
    start_time |-> 32400, end_time |-> 37800],
   [id |-> 2, date |-> [year |-> 2024, month |-> 3, day |-> 1],
    start_time |-> 37800, end_time |-> 41400],
   [id |-> 3, date |-> [year |-> 2024, month |-> 3, day |-> 1],
    start_time |-> 32400, end_time |-> 37800]}

\* startDate and endDate as sent: absent, '2023-01-01' or '2024-03-01'
QueryDates == {NoDate, <<2023, 0, 1, 0, 1>>, <<2024, 0, 3, 0, 1>>}
QueryStudents == {NoStudentId, "S1"}

\* the instants at which an export is asked for, by their UTC fields
ExportNows == {[year |-> 2024, month0 |-> 2, day |-> 1, tod |-> 33300]}

\* the fixed lower bound of the export: startDate || '2023-01-01'
ExportDefaultStart == <<2023, 0, 1, 0, 1>>

\* new Date().toISOString().split('T')[0]
ToIsoDate(n) == <<n.year>> \o Pad2(n.month0 + 1) \o Pad2(n.day)

\* FROM attendance a JOIN students s ON a.student_id = s.student_id
\*                   JOIN classes c ON a.class_id = c.id
JoinedRows ==
  {[att |-> a.id, student_id |-> s.student_id, name |-> s.name,
    date |-> c.date, start_time |-> c.start_time, status |-> a.status] :
     <<a, s, c>> \in {t \in attendance \X students \X classes :
                        /\ t[1].student_id = t[2].student_id
                        /\ t[1].class_id = t[3].id}}

\* WHERE 1=1 [AND c.date >= ?] [AND c.date <= ?] [AND s.student_id = ?]
ReportRows(startDate, endDate, studentId) ==
  {r \in JoinedRows :
     /\ startDate # NoDate => StrLeq(startDate, SqlDateFormat(r.date))
     /\ endDate # NoDate => StrLeq(SqlDateFormat(r.date), endDate)
     /\ studentId # NoStudentId => r.student_id = studentId}

\* WHERE c.date BETWEEN ? AND ?
ExportRows(from, to) ==
  {r \in JoinedRows : /\ StrLeq(from, SqlDateFormat(r.date))
                      /\ StrLeq(SqlDateFormat(r.date), to)}

\* ORDER BY c.date DESC, c.start_time ASC, s.name ASC : a comes before b
SortsBefore(a, b) ==
  \/ StrLess(SqlDateFormat(b.date), SqlDateFormat(a.date))
  \/ /\ a.date = b.date
     /\ \/ a.start_time < b.start_time
        \/ a.start_time = b.start_time /\ StrLess(a.name, b.name)

\* the row sequences a SELECT ... ORDER BY over the rows R may return
OrderBy(R) ==
  {q \in [1..Cardinality(R) -> R] :
     /\ \A i, j \in 1..Cardinality(R) : q[i] = q[j] => i = j
     /\ \A i, j \in 1..Cardinality(R) : i < j => ~SortsBefore(q[j], q[i])}

\* GET /api/reports/attendance?startDate=&endDate=&studentId=
GetReport(startDate, endDate, studentId) ==
  /\ \E q \in OrderBy(ReportRows(startDate, endDate, studentId)) :
       repResp' = [kind |-> "report", startDate |-> startDate,
                   endDate |-> endDate, studentId |-> studentId, rows |-> q]
  /\ UNCHANGED authResp
  /\ UNCHANGED <<dbVars, schedVars, frameVars, hubVars, extVars>>

\* GET /api/export/attendance?startDate=&endDate= : the sheet keeps the
\* rows of the query in their order
GetExport(startDate, endDate, n) ==
  /\ \E q \in OrderBy(ExportRows(
                 IF startDate # NoDate THEN startDate ELSE ExportDefaultStart,
                 IF endDate # NoDate THEN endDate ELSE ToIsoDate(n))) :
       repResp' = [kind |-> "export", startDate |-> startDate,
                   endDate |-> endDate, studentId |-> NoStudentId, rows |-> q]
  /\ UNCHANGED authResp
  /\ UNCHANGED <<dbVars, schedVars, frameVars, hubVars, extVars>>

\* the reports over a database with three classes and up to two students
ReportInit ==
  /\ clock = 0
  /\ students \in {ReportStudents,
                   {s \in ReportStudents : s.student_id = "S2"}}
  /\ classes = ReportClasses
  /\ nextClassId = Cardinality(ReportClasses) + 1
  /\ attendance = {}
  /\ nextAttId = 1
  /\ files = {}
  /\ markResult = "none"
  /\ pc = [h \in Handlers |-> "idle"]
  /\ arg = [h \in Handlers |-> NoArg]
  /\ photoPath = [h \in Handlers |-> NoPhoto]
  /\ resp = [h \in Handlers |-> 0]
  /\ SchedIdle
  /\ FrameIdle
  /\ HubIdle
  /\ ApiIdle
  /\ ExtIdle

ReportNext ==
  \/ \E sid \in ReportStudentIds, c \in ReportClasses, st \in Statuses :
       MarkAttendance(sid, c.id, st)
  \/ \E sd \in QueryDates, ed \in QueryDates, sid \in QueryStudents :
       GetReport(sd, ed, sid)
  \/ \E sd \in QueryDates, ed \in QueryDates, n \in ExportNows :
       GetExport(sd, ed, n)

SpecReport == ReportInit /\ [][ReportNext]_vars

\* ============================================ bearer authentication
\* tokens a request may carry: signed with JWT_SECRET or not, with the
\* time they expire at (clock units)
Tokens == {[sig |-> "signed", exp |-> 1],
           [sig |-> "signed", exp |-> MaxClock + 1],
           [sig |-> "forged", exp |-> MaxClock + 1]}
NoToken == [sig |-> "absent", exp |-> 0]
EmptyToken == [sig |-> "empty", exp |-> 0]

\* the Authorization header, split at blanks; absent: no words
AuthHeaders ==
  {<<>>, <<"Bearer", EmptyToken>>} \cup {<<"Bearer", t>> : t \in Tokens}

\* authHeader && authHeader.split(' ')[1]
HeaderToken(h) == IF Len(h) >= 2 THEN h[2] ELSE NoToken

\* jwt.verify(token, process.env.JWT_SECRET, ...): the signature is ours
\* and the token has not expired
JwtVerify(t) == t.sig = "signed" /\ clock < t.exp

\* a middleware that does not look at the error of jwt.verify
authenticateTokenUnverified(h) ==
  IF HeaderToken(h).sig \in {"absent", "empty"} THEN 401 ELSE 0

\* authenticateToken: the status it answers, 0 when it calls next()
authenticateToken(h) ==
  IF HeaderToken(h).sig \in {"absent", "empty"} THEN 401
  ELSE IF ~JwtVerify(HeaderToken(h)) THEN 403
  ELSE 0

\* app.<method>(path, authenticateToken, ..., handler): the first step of
\* a request to a route behind the middleware
Route(h, Handler) ==
  IF authenticateToken(h) = 0
  THEN Handler
  ELSE /\ authResp' = authenticateToken(h)
       /\ UNCHANGED <<dbVars, schedVars, frameVars, hubVars, repResp,
                      extVars>>

\* the routes in front of an empty database, or of one that holds a
\* student with a photo, a class and an attendance row
AuthInit ==
  /\ clock = 0
  /\ \/ /\ students = {}
        /\ classes = {}
        /\ nextClassId = 1
        /\ attendance = {}
        /\ nextAttId = 1
        /\ files = {}
     \/ /\ students = {[student_id |-> "S1", name |-> StudentName["S1"],
                        photo_path |-> UploadPath("S1")]}
        /\ classes = {[id |-> 1,
                       date |-> [year |-> 2024, month |-> 3, day |-> 1],
                       start_time |-> 32400, end_time |-> 37800]}
        /\ nextClassId = 2
        /\ attendance = {[id |-> 1, student_id |-> "S1", class_id |-> 1,
                          status |-> "present", marked_at |-> 0]}
        /\ nextAttId = 2
        /\ files = {UploadPath("S1")}
  /\ markResult = "none"
  /\ pc = [h \in Handlers |-> "idle"]
  /\ arg = [h \in Handlers |-> NoArg]
  /\ photoPath = [h \in Handlers |-> NoPhoto]
  /\ resp = [h \in Handlers |-> 0]
  /\ SchedIdle
  /\ FrameIdle
  /\ HubIdle
  /\ ApiIdle
  /\ ExtIdle

AuthNext ==
  \/ Tick
  \/ \E h \in AuthHeaders, sid \in StudentIds : Route(h, AddStudent(sid))
  \/ \E h \in AuthHeaders, sid \in StudentIds :
       Route(h, AddStudentWithPhoto(sid))
  \/ \E h \in AuthHeaders, c \in ClassInputs :
       Route(h, AddClass(c[1], c[2], c[3]))
  \/ \E h \in AuthHeaders, d \in StudentDeleters, sid \in StudentIds :
       Route(h, DsLookup(d, sid))
  \/ \E d \in StudentDeleters : DsDeleteAttendance(d)
  \/ \E d \in StudentDeleters : DsDeleteStudent(d)
  \/ \E h \in AuthHeaders, d \in ClassDeleters, cid \in 1..MaxClassId :
       Route(h, DcLookup(d, cid))
  \/ \E d \in ClassDeleters : DcDeleteAttendance(d)
  \/ \E d \in ClassDeleters : DcDeleteClass(d)
  \/ \E d \in ClassDeleters : DcRespond(d)
  \/ \E h \in AuthHeaders, sid \in QueryStudents :
       Route(h, GetReport(NoDate, NoDate, sid))

SpecAuth == AuthInit /\ [][AuthNext]_vars

\* ============================================ attendance rate
\* an SQL or JSON value: NULL, or a number given in hundredths
SqlNull == [isNull |-> TRUE]
Hundredths(n) == [isNull |-> FALSE, hundredths |-> n]

\* COUNT(a.id) over students LEFT JOIN attendance ON student_id
total_classes(sid) == Cardinality(RowsOfStudent(sid))

\* SUM(CASE WHEN a.status = 'present' THEN 1 ELSE 0 END)
present_classes(sid) ==
  Cardinality({a \in RowsOfStudent(sid) : a.status = "present"})

\* (p / t) * 100 to two decimals, in hundredths, halves rounded up
PercentTo2Decimals(p, t) == (2 * p * 10000 + t) \div (2 * t)

\* GET /api/students: total_classes > 0
\*   ? ((present_classes / total_classes) * 100).toFixed(2) : 0
attendanceRate(sid) ==
  IF total_classes(sid) > 0
  THEN Hundredths(PercentTo2Decimals(present_classes(sid),
                                     total_classes(sid)))
  ELSE Hundredths(0)

\* view student_attendance_summary:
\*   ROUND((SUM(CASE ...) / COUNT(a.id)) * 100, 2) ; x / 0 is NULL in MySQL
attendance_percentage(sid) ==
  IF total_classes(sid) = 0
  THEN SqlNull
  ELSE Hundredths(PercentTo2Decimals(present_classes(sid),
                                     total_classes(sid)))

\* ============================================ database connection pool
\* the pool as getConnection and release change it
PoolState == [out |-> checkedOut, queue |-> connQueue, pc |-> ppc]

\* where a handler goes on once the connection it waited for is handed over
Resume(pos) ==
  CASE pos = "ps_wait" -> "ps_insert"
    [] pos = "ds_wait" -> "ds_select"
    [] pos = "dc_wait" -> "dc_select"
    [] pos = "log_wait" -> "log_insert"
    [] OTHER -> pos

\* await pool.getConnection() with waitForConnections: true, queueLimit: 0:
\* a connection if the pool has one free or may open one, else the caller
\* is queued with no time limit
getConnection(st, q, waitPos) ==
  IF st.out < MaxConnections
  THEN [st EXCEPT !.out = @ + 1, !.pc[q] = Resume(waitPos)]
  ELSE [st EXCEPT !.queue = Append(@, q), !.pc[q] = waitPos]

\* connection.release(): the connection goes to the first queued caller, or
\* back to the pool
release(st) ==
  IF st.queue = <<>>
  THEN [st EXCEPT !.out = @ - 1]
  ELSE [st EXCEPT !.queue = Tail(@),
                  !.pc[Head(st.queue)] = Resume(st.pc[Head(st.queue)])]

\* the pool variables take the values of st, and request q is at pos
PoolBecomes(st, q, pos) ==
  /\ checkedOut' = st.out
  /\ connQueue' = st.queue
  /\ ppc' = [st.pc EXCEPT ![q] = pos]

PoolFrame == UNCHANGED <<clock, nextClassId, nextAttId, files, markResult,
                         pc, arg, photoPath, resp>>
             /\ UNCHANGED <<schedVars, frameVars, hubVars, apiVars, upVars,
                            termVars, linkVars, regVars>>

\* POST /api/students, a body the validators reject: 400, no connection
PostStudentInvalid(q) ==
  /\ ppc[q] = "idle"
  /\ pans' = [pans EXCEPT ![q] = 400]
  /\ UNCHANGED <<checkedOut, connQueue, ppc, parg>>
  /\ UNCHANGED <<students, classes, attendance>>
  /\ PoolFrame

\* POST /api/students: const connection = await pool.getConnection()
PostStudentGetConnection(q, sid) ==
  /\ ppc[q] = "idle"
  /\ PoolBecomes(getConnection(PoolState, q, "ps_wait"), q,
                 getConnection(PoolState, q, "ps_wait").pc[q])
  /\ parg' = [parg EXCEPT ![q] = sid]
  /\ pans' = [pans EXCEPT ![q] = 0]
  /\ UNCHANGED <<students, classes, attendance>>
  /\ PoolFrame

\* POST /api/students: the INSERT, then connection.release() and the answer;
\* a duplicate student_id throws ER_DUP_ENTRY past the release into the
\* catch block, which answers 400
PostStudentInsert(q) ==
  /\ ppc[q] = "ps_insert"
  /\ IF StudentExists(parg[q])
     THEN /\ PoolBecomes(PoolState, q, "idle")
          /\ pans' = [pans EXCEPT ![q] = 400]
          /\ UNCHANGED students
     ELSE /\ PoolBecomes(release(PoolState), q, "idle")
          /\ pans' = [pans EXCEPT ![q] = 200]
          /\ students' = students \cup {[student_id |-> parg[q],
                                         name |-> StudentName[parg[q]],
                                         photo_path |-> NoPhoto]}
  /\ parg' = [parg EXCEPT ![q] = NoArg]
  /\ UNCHANGED <<classes, attendance>>
  /\ PoolFrame

\* DELETE /api/students/:studentId: await pool.getConnection()
DeleteStudentGetConnection(q, sid) ==
  /\ ppc[q] = "idle"
  /\ PoolBecomes(getConnection(PoolState, q, "ds_wait"), q,
                 getConnection(PoolState, q, "ds_wait").pc[q])
  /\ parg' = [parg EXCEPT ![q] = sid]
  /\ pans' = [pans EXCEPT ![q] = 0]
  /\ UNCHANGED <<students, classes, attendance>>
  /\ PoolFrame

\* DELETE /api/students/:studentId: SELECT photo_path; no row: release, 404
DeleteStudentSelect(q) ==
  /\ ppc[q] = "ds_select"
  /\ IF ~StudentExists(parg[q])
     THEN /\ PoolBecomes(release(PoolState), q, "idle")
          /\ pans' = [pans EXCEPT ![q] = 404]
          /\ parg' = [parg EXCEPT ![q] = NoArg]
     ELSE /\ PoolBecomes(PoolState, q, "ds_del_att")
          /\ UNCHANGED <<pans, parg>>
  /\ UNCHANGED <<students, classes, attendance>>
  /\ PoolFrame

\* DELETE /api/students/:studentId: DELETE FROM attendance
DeleteStudentAttendance(q) ==
  /\ ppc[q] = "ds_del_att"
  /\ attendance' = attendance \ RowsOfStudent(parg[q])
  /\ ppc' = [ppc EXCEPT ![q] = "ds_del_stu"]
  /\ UNCHANGED <<checkedOut, connQueue, parg, pans>>
  /\ UNCHANGED <<students, classes>>
  /\ PoolFrame

\* DELETE /api/students/:studentId: DELETE FROM students, release, answer by
\* affectedRows (the students of this specification are added without a
\* photo, so there is no file to unlink)
DeleteStudentRow(q) ==
  /\ ppc[q] = "ds_del_stu"
  /\ students' = students \ StudentRows(parg[q])
  /\ PoolBecomes(release(PoolState), q, "idle")
  /\ pans' = [pans EXCEPT ![q] = IF StudentExists(parg[q]) THEN 200 ELSE 404]
  /\ parg' = [parg EXCEPT ![q] = NoArg]
  /\ UNCHANGED <<classes, attendance>>
  /\ PoolFrame

\* DELETE /api/classes/:id: await pool.getConnection()
DeleteClassGetConnection(q, cid) ==
  /\ ppc[q] = "idle"
  /\ PoolBecomes(getConnection(PoolState, q, "dc_wait"), q,
                 getConnection(PoolState, q, "dc_wait").pc[q])
  /\ parg' = [parg EXCEPT ![q] = cid]
  /\ pans' = [pans EXCEPT ![q] = 0]
  /\ UNCHANGED <<students, classes, attendance>>
  /\ PoolFrame

\* DELETE /api/classes/:id: SELECT class_name; no row: release, 404
DeleteClassSelect(q) ==
  /\ ppc[q] = "dc_select"
  /\ IF ~ClassExists(parg[q])
     THEN /\ PoolBecomes(release(PoolState), q, "idle")
          /\ pans' = [pans EXCEPT ![q] = 404]
          /\ parg' = [parg EXCEPT ![q] = NoArg]
     ELSE /\ PoolBecomes(PoolState, q, "dc_del_att")
          /\ UNCHANGED <<pans, parg>>
  /\ UNCHANGED <<students, classes, attendance>>
  /\ PoolFrame

\* DELETE /api/classes/:id: DELETE FROM attendance WHERE class_id = ?
DeleteClassAttendance(q) ==
  /\ ppc[q] = "dc_del_att"
  /\ attendance' = attendance \ RowsOfClass(parg[q])
  /\ ppc' = [ppc EXCEPT ![q] = "dc_del_cls"]
  /\ UNCHANGED <<checkedOut, connQueue, parg, pans>>
  /\ UNCHANGED <<students, classes>>
  /\ PoolFrame

\* DELETE /api/classes/:id: DELETE FROM classes (attendance cascades), then
\* logActivity asks the pool for a connection of its own while the
\* handler's is still checked out
DeleteClassRow(q) ==
  /\ ppc[q] = "dc_del_cls"
  /\ classes' = classes \ ClassRows(parg[q])
  /\ attendance' = attendance \ RowsOfClass(parg[q])
  /\ PoolBecomes(getConnection(PoolState, q, "log_wait"), q,
                 getConnection(PoolState, q, "log_wait").pc[q])
  /\ UNCHANGED <<parg, pans>>
  /\ UNCHANGED students
  /\ PoolFrame

\* logActivity: INSERT INTO activity_logs, connection.release(); back in the
\* handler: connection.release(), res.json(success)
DeleteClassLogged(q) ==
  /\ ppc[q] = "log_insert"
  /\ PoolBecomes(release(release(PoolState)), q, "idle")
  /\ pans' = [pans EXCEPT ![q] = 200]
  /\ parg' = [parg EXCEPT ![q] = NoArg]
  /\ UNCHANGED <<students, classes, attendance>>
  /\ PoolFrame

PoolNext ==
  \/ \E q \in PostStudentReqs : PostStudentInvalid(q)
  \/ \E q \in PostStudentReqs, sid \in StudentIds :
       PostStudentGetConnection(q, sid)
  \/ \E q \in PostStudentReqs : PostStudentInsert(q)
  \/ \E q \in DeleteStudentReqs, sid \in StudentIds :
       DeleteStudentGetConnection(q, sid)
  \/ \E q \in DeleteStudentReqs : DeleteStudentSelect(q)
  \/ \E q \in DeleteStudentReqs : DeleteStudentAttendance(q)
  \/ \E q \in DeleteStudentReqs : DeleteStudentRow(q)
  \/ \E q \in DeleteClassReqs, cid \in 1..MaxClassId :
       DeleteClassGetConnection(q, cid)
  \/ \E q \in DeleteClassReqs : DeleteClassSelect(q)
  \/ \E q \in DeleteClassReqs : DeleteClassAttendance(q)
  \/ \E q \in DeleteClassReqs : DeleteClassRow(q)
  \/ \E q \in DeleteClassReqs : DeleteClassLogged(q)

\* the timetable holds one class
PoolInit ==
  /\ clock = 0
  /\ students = {}
  /\ classes = {[id |-> 1, date |-> c[1], start_time |-> c[2],
                 end_time |-> c[3]] : c \in ClassInputs}
  /\ nextClassId = 2
  /\ attendance = {}
  /\ nextAttId = 1
  /\ files = {}
  /\ markResult = "none"
  /\ pc = [h \in Handlers |-> "idle"]
  /\ arg = [h \in Handlers |-> NoArg]
  /\ photoPath = [h \in Handlers |-> NoPhoto]
  /\ resp = [h \in Handlers |-> 0]
  /\ SchedIdle
  /\ FrameIdle
  /\ HubIdle
  /\ ApiIdle
  /\ ExtIdle

SpecPool == PoolInit /\ [][PoolNext]_vars

\* ============================================ uploads
\* the multipart bodies of POST /api/students/with-photo
PhotoBodies == {"complete", "no_name"}

\* what XLSX.readFile makes of the uploaded sheet: it throws, or a number
\* of rows with class_name, start_time, end_time and date
SheetRows == {0, 1}
Sheets == {[readable |-> FALSE, rows |-> 0]}
            \cup {[readable |-> TRUE, rows |-> k] : k \in SheetRows}

\* upload.single('timetable') filename: Date.now() + '-' + originalname
TimetablePath == <<"timetable.xlsx", clock>>

UploadFrame == UNCHANGED <<clock, attendance, nextAttId, markResult, pc, arg,
                           photoPath, resp>>
               /\ UNCHANGED <<schedVars, frameVars, hubVars, apiVars,
                              poolVars, termVars, linkVars, regVars>>

\* if (!student_id || !name || !email) return 400 ; if (!req.file) return 400
\* the file multer stored, if any, is left where it is
WithPhotoRejected(path, stored) ==
  /\ files' = IF stored THEN files \cup {path} ELSE files
  /\ upResp' = [status |-> 400, path |-> IF stored THEN path ELSE NoPath]
  /\ UNCHANGED students

\* POST /api/students/with-photo: uploadImage.single('photo') stores the
\* file, then the handler validates, inserts and answers; a failed insert
\* unlinks the file
PostStudentWithPhoto(sid, body, hasFile) ==
  /\ IF body # "complete" \/ ~hasFile
     THEN WithPhotoRejected(UploadPath(sid), hasFile)
     ELSE IF StudentExists(sid)
     THEN /\ files' = files \ {UploadPath(sid)}
          /\ upResp' = [status |-> 400, path |-> UploadPath(sid)]
          /\ UNCHANGED students
     ELSE /\ files' = files \cup {UploadPath(sid)}
          /\ students' = students \cup {[student_id |-> sid,
                                         name |-> StudentName[sid],
                                         photo_path |-> UploadPath(sid)]}
          /\ upResp' = [status |-> 200, path |-> UploadPath(sid)]
  /\ UNCHANGED <<classes, nextClassId>>
  /\ UploadFrame

\* POST /api/upload/timetable without a file: 400
TimetableNoFile ==
  /\ upResp' = [status |-> 400, path |-> NoPath]
  /\ UNCHANGED <<students, classes, nextClassId, files>>
  /\ UploadFrame

\* POST /api/upload/timetable: upload.single('timetable') stores the file;
\* XLSX.readFile throws on a sheet it cannot read and the catch block
\* answers 500; else one INSERT per row, fs.unlinkSync, success
UploadTimetable(sheet, c) ==
  /\ IF ~sheet.readable
     THEN /\ files' = files \cup {TimetablePath}
          /\ upResp' = [status |-> 500, path |-> TimetablePath]
          /\ UNCHANGED <<classes, nextClassId>>
     ELSE /\ nextClassId + sheet.rows - 1 <= MaxClassId
          /\ classes' = classes \cup
               {[id |-> nextClassId + i - 1, date |-> c[1],
                 start_time |-> c[2], end_time |-> c[3]] :
                  i \in 1..sheet.rows}
          /\ nextClassId' = nextClassId + sheet.rows
          /\ files' = files \ {TimetablePath}
          /\ upResp' = [status |-> 200, path |-> TimetablePath]
  /\ UNCHANGED students
  /\ UploadFrame

UploadNext ==
  \/ Tick
  \/ \E sid \in StudentIds, body \in PhotoBodies, hasFile \in BOOLEAN :
       PostStudentWithPhoto(sid, body, hasFile)
  \/ TimetableNoFile
  \/ \E sheet \in Sheets, c \in ClassInputs : UploadTimetable(sheet, c)
  \/ \E h \in StudentDeleters, sid \in StudentIds : DsLookup(h, sid)
  \/ \E h \in StudentDeleters : DsDeleteAttendance(h)
  \/ \E h \in StudentDeleters : DsDeleteStudent(h)

SpecUpload == Init /\ [][UploadNext]_vars

\* ============================================ terminal auto-scheduling
\* setInterval(..., 30000) and setTimeout(..., 120000), in milliseconds
PollMs == 30000
IdleMs == 120000

\* the camera idle delay, in poll periods
IdleTicks == IdleMs \div PollMs

\* bound of the idle periods counted
MaxIdleTicks == 5

\* the operator name typed into the login form, trimmed
OperatorNames == {"", "op"}

\* what a poll of /api/terminal/current-class comes back with: a current
\* class, no current class, or a failed fetch
PollResults ==
  {[kind |-> "current", class_id |-> c] : c \in 1..MaxClassId}
    \cup {[kind |-> "none", class_id |-> 0],
          [kind |-> "failed", class_id |-> 0]}

TermFrame == UNCHANGED <<dbVars, schedVars, frameVars, hubVars, apiVars,
                         poolVars, upVars, linkVars, regVars>>

\* stopCamera(): the tracks are stopped; this.stream keeps the MediaStream
StoppedStream == IF stream = "live" THEN "stopped" ELSE stream

\* checkForCurrentClass() with isAutoMode = auto: a current class is
\* selected and the camera started if this.stream is null; with no current
\* class scheduleCameraStop() replaces the pending timeout by a new one
checkForCurrentClass(auto, r, granted) ==
  /\ lastPoll' = IF r.kind = "failed" THEN lastPoll ELSE r.kind
  /\ currentClass' = IF r.kind = "current" THEN r.class_id ELSE currentClass
  /\ stream' = IF r.kind = "current" /\ stream = "null" /\ auto /\ granted
               THEN "live" ELSE stream
  /\ idleLeft' = IF r.kind = "none" /\ stream # "null" /\ auto
                 THEN IdleTicks ELSE idleLeft
  /\ idleTicks' = CASE r.kind = "current" -> NoTimer
                    [] r.kind = "none" /\ stream = "live" /\ auto
                         /\ idleTicks = NoTimer -> 0
                    [] OTHER -> idleTicks

\* handleLogin(): an empty name is refused
handleLogin(name) ==
  /\ isLoggedIn' = IF name = "" THEN isLoggedIn ELSE TRUE
  /\ UNCHANGED <<isAutoMode, classCheckInterval, pollDue, idleLeft, stream,
                 currentClass, lastPoll, idleTicks>>
  /\ TermFrame

\* handleLogout(): stopCamera() if this.stream, stopAutoScheduling(), reset
handleLogout ==
  /\ stream' = StoppedStream
  /\ classCheckInterval' = FALSE
  /\ pollDue' = FALSE
  /\ idleLeft' = NoTimer
  /\ isLoggedIn' = FALSE
  /\ currentClass' = 0
  /\ isAutoMode' = FALSE
  /\ idleTicks' = NoTimer
  /\ UNCHANGED lastPoll
  /\ TermFrame

\* the auto-mode switch changes: toggleAutoMode(enabled); on, one
\* checkForCurrentClass(); off, stopAutoScheduling()
toggleAutoMode(enabled, r, granted) ==
  /\ enabled # isAutoMode
  /\ isAutoMode' = enabled
  /\ IF enabled
     THEN /\ checkForCurrentClass(TRUE, r, granted)
          /\ UNCHANGED <<classCheckInterval, pollDue>>
     ELSE /\ classCheckInterval' = FALSE
          /\ pollDue' = FALSE
          /\ idleLeft' = NoTimer
          /\ idleTicks' = NoTimer
          /\ UNCHANGED <<stream, currentClass, lastPoll>>
  /\ UNCHANGED isLoggedIn
  /\ TermFrame

\* the start button: startCamera(); getUserMedia is granted or refused
startCamera(granted) ==
  /\ stream # "live"
  /\ stream' = IF granted THEN "live" ELSE stream
  /\ idleTicks' = NoTimer
  /\ UNCHANGED <<isLoggedIn, isAutoMode, classCheckInterval, pollDue,
                 idleLeft, currentClass, lastPoll>>
  /\ TermFrame

\* the stop button: stopCamera()
stopCamera ==
  /\ stream = "live"
  /\ stream' = StoppedStream
  /\ idleTicks' = NoTimer
  /\ UNCHANGED <<isLoggedIn, isAutoMode, classCheckInterval, pollDue,
                 idleLeft, currentClass, lastPoll>>
  /\ TermFrame

\* 30 seconds pass: the interval, if set, comes due and a pending timeout
\* is 30 seconds nearer; callbacks that are due run first
AdvanceHalfMinute ==
  /\ ~pollDue
  /\ idleLeft # 0
  /\ pollDue' = classCheckInterval
  /\ idleLeft' = IF idleLeft > 0 THEN idleLeft - 1 ELSE idleLeft
  /\ idleTicks' = IF idleTicks = NoTimer \/ idleTicks = MaxIdleTicks
                  THEN idleTicks ELSE idleTicks + 1
  /\ UNCHANGED <<isLoggedIn, isAutoMode, classCheckInterval, stream,
                 currentClass, lastPoll>>
  /\ TermFrame

\* the interval's callback:
\* if (this.isAutoMode && this.isLoggedIn) this.checkForCurrentClass()
IntervalFires(r, granted) ==
  /\ pollDue
  /\ pollDue' = FALSE
  /\ IF isAutoMode /\ isLoggedIn
     THEN checkForCurrentClass(isAutoMode, r, granted)
     ELSE UNCHANGED <<idleLeft, stream, currentClass, lastPoll, idleTicks>>
  /\ UNCHANGED <<isLoggedIn, isAutoMode, classCheckInterval>>
  /\ TermFrame

\* the callback of scheduleCameraStop()'s timeout:
\* if (this.stream && this.isAutoMode) this.stopCamera()
IdleTimeoutFires ==
  /\ idleLeft = 0
  /\ idleLeft' = NoTimer
  /\ IF stream # "null" /\ isAutoMode
     THEN /\ stream' = StoppedStream
          /\ idleTicks' = NoTimer
     ELSE UNCHANGED <<stream, idleTicks>>
  /\ UNCHANGED <<isLoggedIn, isAutoMode, classCheckInterval, pollDue,
                 currentClass, lastPoll>>
  /\ TermFrame

TermNext ==
  \/ \E name \in OperatorNames : handleLogin(name)
  \/ handleLogout
  \/ \E enabled \in BOOLEAN, r \in PollResults, granted \in BOOLEAN :
       toggleAutoMode(enabled, r, granted)
  \/ \E granted \in BOOLEAN : startCamera(granted)
  \/ stopCamera
  \/ AdvanceHalfMinute
  \/ \E r \in PollResults, granted \in BOOLEAN : IntervalFires(r, granted)
  \/ IdleTimeoutFires

SpecTerm == Init /\ [][TermNext]_vars

\* ============================================ terminal WebSocket link
\* bound of the WebSockets the page makes
MaxSockets == 6

\* setTimeout(() => this.connectWebSocket(), 5000), in milliseconds
ReconnectMs == 5000
ReconnectSeconds == ReconnectMs \div 1000

LinkFrame == UNCHANGED <<dbVars, schedVars, frameVars, hubVars, apiVars,
                         poolVars, upVars, termVars, regVars>>

\* the sequence without its k-th element
RemoveAt(q, k) == [i \in 1..(Len(q) - 1) |-> IF i < k THEN q[i] ELSE q[i + 1]]

\* the backend goes down or comes back
BackendFlips ==
  /\ backendUp' = ~backendUp
  /\ UNCHANGED <<sockets, reconnects, connStatus>>
  /\ LinkFrame

\* onopen: the status line shows connected
SocketOpen(i) ==
  /\ sockets[i] = "CONNECTING"
  /\ backendUp
  /\ sockets' = [sockets EXCEPT ![i] = "OPEN"]
  /\ connStatus' = "connected"
  /\ UNCHANGED <<reconnects, backendUp>>
  /\ LinkFrame

\* an error handler that schedules a reconnect of its own
SocketErrorReconnects(i) ==
  /\ sockets[i] \in {"CONNECTING", "OPEN"}
  /\ sockets' = [sockets EXCEPT ![i] = "FAILED"]
  /\ reconnects' = Append(reconnects, ReconnectSeconds)
  /\ UNCHANGED <<connStatus, backendUp>>
  /\ LinkFrame

\* onerror: the connection attempt or the connection has failed; the
\* handler logs, and the socket's close event is still to come
SocketError(i) ==
  /\ sockets[i] \in {"CONNECTING", "OPEN"}
  /\ sockets' = [sockets EXCEPT ![i] = "FAILED"]
  /\ UNCHANGED <<reconnects, connStatus, backendUp>>
  /\ LinkFrame

\* onclose (after a failure, or when an open connection is closed): the
\* status line shows disconnected and a reconnect is set for 5 seconds on
SocketClose(i) ==
  /\ sockets[i] \in {"OPEN", "FAILED"}
  /\ sockets' = [sockets EXCEPT ![i] = "CLOSED"]
  /\ connStatus' = "disconnected"
  /\ reconnects' = Append(reconnects, ReconnectSeconds)
  /\ UNCHANGED backendUp
  /\ LinkFrame

\* a second passes; a timeout that is due fires first
SecondPasses ==
  /\ reconnects # <<>>
  /\ \A k \in 1..Len(reconnects) : reconnects[k] > 0
  /\ reconnects' = [k \in 1..Len(reconnects) |-> reconnects[k] - 1]
  /\ UNCHANGED <<sockets, connStatus, backendUp>>
  /\ LinkFrame

\* the reconnect timeout fires: connectWebSocket() makes a new WebSocket
ReconnectFires(k) ==
  /\ reconnects[k] = 0
  /\ Len(sockets) < MaxSockets
  /\ reconnects' = RemoveAt(reconnects, k)
  /\ sockets' = Append(sockets, "CONNECTING")
  /\ UNCHANGED <<connStatus, backendUp>>
  /\ LinkFrame

LinkNext ==
  \/ BackendFlips
  \/ \E i \in 1..Len(sockets) : SocketOpen(i)
  \/ \E i \in 1..Len(sockets) : SocketError(i)
  \/ \E i \in 1..Len(sockets) : SocketClose(i)
  \/ SecondPasses
  \/ \E k \in 1..Len(reconnects) : ReconnectFires(k)

SpecLink == Init /\ [][LinkNext]_vars

\* ============================================ terminal server registry
\* req.url of a connection, split at '='
RequestUrls == {<<"/ws">>, <<"/ws?id", "">>, <<"/ws?id", "T1">>,
                <<"/ws?id", "T2">>}

\* req.url.split('=')[1] || 'unknown'
TerminalIdOf(parts) ==
  IF Len(parts) >= 2 /\ parts[2] # "" THEN parts[2] ELSE "unknown"

\* the messages a terminal sends: JSON with a type, or text that is not JSON
TerminalMessages == {"class_selected", "attendance_marked", "status",
                     "not_json"}

\* Map.prototype.keys / has / get / set / delete, on a sequence of entries
\* in insertion order
MapKeys(m) == {m[i].id : i \in 1..Len(m)}
MapGet(m, id) ==
  IF id \in MapKeys(m)
  THEN (CHOOSE i \in 1..Len(m) : m[i].id = id)
  ELSE 0
MapValue(m, id) == IF MapGet(m, id) = 0 THEN NoSocket ELSE m[MapGet(m, id)].ws
MapSet(m, id, s) ==
  IF id \in MapKeys(m)
  THEN [m EXCEPT ![MapGet(m, id)].ws = s]
  ELSE Append(m, [id |-> id, ws |-> s])
MapDelete(m, id) ==
  IF id \in MapKeys(m)
  THEN [i \in 1..(Len(m) - 1) |->
          IF i < MapGet(m, id) THEN m[i] ELSE m[i + 1]]
  ELSE m

\* getConnectedTerminals: Array.from(terminals.keys())
getConnectedTerminals == [i \in 1..Len(terminals) |-> terminals[i].id]

\* the connections broadcast(message, excludeTerminal) sends to
broadcastTargets(excludeTerminal) ==
  {terminals[i].ws : i \in {j \in 1..Len(terminals) :
      /\ terminals[j].id # excludeTerminal
      /\ tsReady[terminals[j].ws] = "OPEN"}}

RegFrame == UNCHANGED <<dbVars, schedVars, frameVars, hubVars, apiVars,
                        poolVars, upVars, termVars, linkVars>>

\* wss.on('connection'): terminals.set(terminalId, ws) and the welcome
TsConnection(s, url) ==
  /\ tsReady[s] = "NONE"
  /\ tsReady' = [tsReady EXCEPT ![s] = "OPEN"]
  /\ tsId' = [tsId EXCEPT ![s] = TerminalIdOf(url)]
  /\ terminals' = MapSet(terminals, TerminalIdOf(url), s)
  /\ tsInbox' = [tsInbox EXCEPT ![s] = Append(@, "connection_established")]
  /\ RegFrame

\* the closing handshake of a connection has begun; no event yet
TsClosing(s) ==
  /\ tsReady[s] = "OPEN"
  /\ tsReady' = [tsReady EXCEPT ![s] = "CLOSING"]
  /\ UNCHANGED <<terminals, tsId, tsInbox>>
  /\ RegFrame

\* ws.on('error'): logged
TsError(s) ==
  /\ tsReady[s] \in {"OPEN", "CLOSING"}
  /\ tsReady' = [tsReady EXCEPT ![s] = "CLOSING"]
  /\ UNCHANGED <<terminals, tsId, tsInbox>>
  /\ RegFrame

\* ws.on('close'): terminals.delete(terminalId)
TsClose(s) ==
  /\ tsReady[s] \in {"OPEN", "CLOSING"}
  /\ tsReady' = [tsReady EXCEPT ![s] = "CLOSED"]
  /\ terminals' = MapDelete(terminals, tsId[s])
  /\ UNCHANGED <<tsId, tsInbox>>
  /\ RegFrame

\* ws.on('message'): class_selected is broadcast to the other terminal
\* ids, attendance_marked to all; anything else is ignored
TsMessage(s, m) ==
  /\ tsReady[s] = "OPEN"
  /\ \A t \in TermSockets : Len(tsInbox[t]) < MaxOutbox
  /\ tsInbox' =
       [t \in TermSockets |->
          IF m = "class_selected" /\ t \in broadcastTargets(tsId[s])
          THEN Append(tsInbox[t], "terminal_class_selected")
          ELSE IF m = "attendance_marked" /\ t \in broadcastTargets(NoArg)
          THEN Append(tsInbox[t], "attendance_update")
          ELSE tsInbox[t]]
  /\ UNCHANGED <<terminals, tsReady, tsId>>
  /\ RegFrame

\* sendToTerminal(terminalId, message)
sendToTerminal(id) ==
  /\ \A t \in TermSockets : Len(tsInbox[t]) < MaxOutbox
  /\ tsInbox' =
       [t \in TermSockets |->
          IF t = MapValue(terminals, id) /\ tsReady[t] = "OPEN"
          THEN Append(tsInbox[t], "direct")
          ELSE tsInbox[t]]
  /\ UNCHANGED <<terminals, tsReady, tsId>>
  /\ RegFrame

RegNext ==
  \/ \E s \in TermSockets, url \in RequestUrls : TsConnection(s, url)
  \/ \E s \in TermSockets : TsClosing(s)
  \/ \E s \in TermSockets : TsError(s)
  \/ \E s \in TermSockets : TsClose(s)
  \/ \E s \in TermSockets, m \in TerminalMessages : TsMessage(s, m)
  \/ \E id \in {"T1", "T2", "unknown"} : sendToTerminal(id)

SpecRegistry == Init /\ [][RegNext]_vars

\* ================================================================ claims
\* C1: in every reachable state the attendance table holds at most one
\* row for each (student_id, class_id) pair.
AtMostOneRecordPerPair ==
  \A a \in attendance, b \in attendance :
    (a.student_id = b.student_id /\ a.class_id = b.class_id) => a = b

\* a pair was marked a second time and a student delete has succeeded
RemarkedPairState ==
  /\ markResult = "updated"
  /\ attendance # {}
  /\ \E h \in StudentDeleters : resp[h] = 200

\* C2: every MarkAttendance call that succeeds leaves exactly one row for
\* its pair, carrying the status of that call and the time of that call;
\* so of two calls for one pair the one applied last decides both.
LastMarkWins ==
  [][\A sid \in StudentIds, cid \in 1..MaxClassId, st \in Statuses :
       (MarkAttendance(sid, cid, st) /\ markResult' # "error") =>
         /\ Cardinality(RowsFor(sid, cid)') = 1
         /\ \A a \in RowsFor(sid, cid)' :
              a.status = st /\ a.marked_at = clock]_vars

\* a second call changed an earlier row to absent at a later time
SecondMarkApplied ==
  /\ markResult = "updated"
  /\ \E a \in attendance : a.status = "absent" /\ a.marked_at > 0

\* C3: a MarkAttendance call naming a student or a class that does not
\* exist ends in an error and leaves the attendance table unchanged.
MarkRejectsUnknownRefs ==
  [][\A sid \in StudentIds, cid \in 1..MaxClassId, st \in Statuses :
       (MarkAttendance(sid, cid, st)
          /\ (~StudentExists(sid) \/ ~ClassExists(cid))) =>
         (markResult' = "error" /\ attendance' = attendance)]_vars

\* C4: when DELETE /api/students/:studentId answers success for S, no
\* attendance row references S and no class roster includes S.
NoOrphanAfterStudentDelete ==
  [][\A h \in StudentDeleters :
       (pc[h] = "ds_del_stu" /\ pc'[h] = "idle" /\ resp'[h] = 200) =>
         /\ \A a \in attendance' : a.student_id # arg[h]
         /\ \A cid \in 1..MaxClassId :
              \A a \in ClassAttendance(cid)' : a.student_id # arg[h]]_vars

\* C5: no attendance row references a class identifier that is not in the
\* classes table (never created, or deleted).
NoRowForMissingClass ==
  \A a \in attendance : ClassExists(a.class_id)

\* a class was created and deleted, and a mark was refused afterwards
ClassDeletedMarkRefused ==
  /\ nextClassId > 1
  /\ classes = {}
  /\ markResult = "error"
  /\ \E h \in ClassDeleters : resp[h] = 200

\* C6: a delete request for a student or class identifier that does not
\* exist is answered 404 in the lookup step and changes no student, class,
\* attendance row or photo file.
DeleteMissingIsNoOp ==
  [][/\ \A h \in StudentDeleters, sid \in StudentIds :
            (DsLookup(h, sid) /\ ~StudentExists(sid)) =>
              (resp'[h] = 404 /\ pc'[h] = "idle"
                 /\ UNCHANGED <<students, classes, attendance, files>>)
     /\ \A h \in ClassDeleters, cid \in 1..MaxClassId :
            (DcLookup(h, cid) /\ ~ClassExists(cid)) =>
              (resp'[h] = 404 /\ pc'[h] = "idle"
                 /\ UNCHANGED <<students, classes, attendance, files>>)]_vars

\* both kinds of delete were answered 404 and a class and a row exist
DeleteMissingAnswered ==
  /\ \A h \in Handlers : resp[h] = 404 /\ pc[h] = "idle"
  /\ students = {}
  /\ classes # {}
  /\ attendance # {}

\* the calendar date of an instant and the classes whose window holds it
Today(n) == [year |-> n.year, month |-> n.month0 + 1, day |-> n.day]
WindowHolds(n) ==
  {c \in classes : /\ c.date = Today(n)
                   /\ c.start_time <= n.tod
                   /\ n.tod <= c.end_time}
StartsWithinLookahead(n) ==
  {c \in classes : /\ c.date = Today(n)
                   /\ c.start_time > n.tod
                   /\ c.start_time <= n.tod + LookaheadSeconds}

\* C7: the lookup answers no current class when no class of now's date has
\* start_time <= now <= end_time, and otherwise answers one class of those,
\* with the earliest start_time among them.
CurrentClassIsEarliestHolding ==
  ccResp.kind # "idle" =>
    IF WindowHolds(now) = {}
    THEN ccResp.kind # "current"
    ELSE /\ ccResp.kind = "current"
         /\ ccResp.class \in WindowHolds(now)
         /\ \A c \in WindowHolds(now) :
              ccResp.class.start_time <= c.start_time

\* two overlapping classes hold now, one at its inclusive end, and the
\* earlier one is answered
OverlapAnswered ==
  /\ ccResp.kind = "current"
  /\ Cardinality(WindowHolds(now)) = 2
  /\ \E c \in WindowHolds(now) : c.start_time > ccResp.class.start_time
  /\ \E c \in WindowHolds(now) : c.end_time = now.tod

\* C8: when no class is current, the lookup reports as upcoming the
\* earliest class of today that starts after now and at most 60 minutes
\* after now, and reports none only when there is no such class.
UpcomingIsEarliestWithinHour ==
  ccResp.kind \in {"upcoming", "none"} =>
    IF StartsWithinLookahead(now) = {}
    THEN ccResp.kind = "none"
    ELSE /\ ccResp.kind = "upcoming"
         /\ ccResp.class \in StartsWithinLookahead(now)
         /\ \A c \in StartsWithinLookahead(now) :
              ccResp.class.start_time <= c.start_time

\* C9: no /api/process-frame request is answered more than once, whatever
\* the order of the recognizer's close event and the timer.
AtMostOneResponse ==
  \A r \in FrameReqs : Len(sent[r]) <= 1

\* the timer answered first and the close handler ran afterwards
CloseAfterTimeout ==
  \E r \in FrameReqs :
    timer[r] = "fired" /\ proc[r] = "closed" /\ Len(sent[r]) = 1

\* C10: a request that has not been answered yet is one whose timer is
\* still to fire on a running backend; hence every request is answered,
\* at the latest when its timer fires.
UnansweredHasTimerArmed ==
  \A r \in FrameReqs :
    (submitted[r] /\ Len(sent[r]) = 0) => (~crashed /\ timer[r] = "armed")

\* a request is in flight from the write of its frame file until it is
\* answered
InFlight(r) == submitted[r] /\ tempImagePath[r] # NoPath /\ Len(sent[r]) = 0

\* C11: in the step that answers a /api/process-frame request which wrote
\* a frame file, that file is not on disk any more, whether the answer is
\* the result, a recognizer failure, a failure to start the recognizer or
\* the timeout.
FrameFileGoneWhenAnswered ==
  [][\A r \in FrameReqs :
       (Len(sent[r]) = 0 /\ Len(sent'[r]) = 1 /\ tempImagePath'[r] # NoPath)
         => tempImagePath'[r] \notin tempFiles']_vars

\* C12: a recognizer failure never takes the backend down, and the step
\* in which a request learns of the failure (non-zero exit, unparsable
\* output, timeout, failure to start) writes one 5xx response to that
\* request and nothing to any other request.
RecognizerFailureIsPerRequest ==
  [][/\ ~crashed'
     /\ \A r \in FrameReqs :
          (\/ FrameTimeout(r) /\ ~AlreadyResponded(r)
           \/ \E tid \in TerminalIds : SubmitFrameSpawnThrows(r, tid)
           \/ \E res \in RecognizerResults :
                /\ ProcessClose(r, res)
                /\ ~AlreadyResponded(r)
                /\ ~(res.code = 0 /\ res.out = "json"))
            => /\ sent'[r] = <<500>>
               /\ \A q \in FrameReqs \ {r} : sent'[q] = sent[q]]_vars

\* C19: a request answered by its timer is one whose recognizer is not
\* left running unsignalled: the timer callback that answers has sent the
\* termination signal in the same step.
TimedOutRecognizerSignalled ==
  \A r \in FrameReqs : timer[r] = "fired" => proc[r] # "running"

\* a request was answered by its timer while its recognizer was running,
\* and the recognizer has been signalled and has not exited yet
TimeoutKilledRunning ==
  \E r \in FrameReqs :
    timer[r] = "fired" /\ proc[r] = "signalled" /\ sent[r] = <<500>>

\* C20: two requests in flight at the same time have different frame file
\* paths, so neither deletes or overwrites the other's file.
InFlightPathsDiffer ==
  \A r \in FrameReqs, q \in FrameReqs :
    (r # q /\ InFlight(r) /\ InFlight(q))
      => tempImagePath[r] # tempImagePath[q]

BroadcastReachesOpenOnly ==
  [][/\ ~sendFailed'
     /\ \A msg \in HubEvents :
          BroadcastCall(msg) =>
            \A w \in Sockets :
              outbox'[w] = IF w \in connectedClients /\ readyState[w] = "OPEN"
                           THEN Append(outbox[w], msg)
                           ELSE outbox[w]]_vars

\* a connection of the set is closing and has the greeting only, while an
\* open one has received two broadcasts
BroadcastSkippedClosing ==
  \E w \in connectedClients, v \in connectedClients :
    /\ readyState[w] = "CLOSING"
    /\ outbox[w] = <<"connection_established">>
    /\ readyState[v] = "OPEN"
    /\ outbox[v] = <<"connection_established", "attendance_marked",
                     "attendance_marked">>

\* the attendance rows of the classes dated within [startDate, endDate],
\* of one student when studentId is given
ClassOf(a) == CHOOSE c \in classes : c.id = a.class_id
RowsInRange(startDate, endDate, studentId) ==
  {a \in attendance :
     /\ StrLeq(startDate, SqlDateFormat(ClassOf(a).date))
     /\ StrLeq(SqlDateFormat(ClassOf(a).date), endDate)
     /\ studentId # NoStudentId => a.student_id = studentId}

\* C15: a report asked for with a start and an end date returns each
\* attendance row of a class dated within [start, end] (of the given
\* student, when one is given) once and no other row, ordered by class
\* date descending, then start time ascending, then student name ascending.
ReportReturnsRowsInRange ==
  [][\A sd \in QueryDates \ {NoDate}, ed \in QueryDates \ {NoDate},
        sid \in QueryStudents :
       GetReport(sd, ed, sid) =>
         LET q == repResp'.rows
         IN /\ {q[i].att : i \in DOMAIN q} =
                 {a.id : a \in RowsInRange(sd, ed, sid)}
            /\ \A i, j \in DOMAIN q : q[i].att = q[j].att => i = j
            /\ \A i, j \in DOMAIN q :
                 i < j => ~SortsBefore(q[j], q[i])]_vars

\* C16: an export asked for with a startDate and endDate, each given or
\* left out, returns a sequence of rows that the report without a student
\* filter returns for the same startDate and endDate.
ExportMatchesReport ==
  [][\A sd \in QueryDates, ed \in QueryDates, n \in ExportNows :
       GetExport(sd, ed, n) =>
         repResp'.rows \in OrderBy(ReportRows(sd, ed, NoStudentId))]_vars

\* C18: for every student the reported attendance rate, as a percentage,
\* is the number 0 when the student has no attendance row, and otherwise
\* present/total to two decimals with 0 <= present <= total; this holds of
\* the rate of GET /api/students and of the view student_attendance_summary.
RateIsZeroWithoutRecords ==
  \A s \in students :
    LET sid == s.student_id
        t == total_classes(sid)
        p == present_classes(sid)
    IN \A rate \in {attendanceRate(sid), attendance_percentage(sid)} :
         /\ ~rate.isNull
         /\ t = 0 => rate.hundredths = 0
         /\ t > 0 => /\ 0 <= p /\ p <= t
                     /\ 2 * (rate.hundredths * t - p * 10000) <= t
                     /\ 2 * (p * 10000 - rate.hundredths * t) <= t

\* a request to one of the routes behind authenticateToken, with header h
BearerRequest(h) ==
  \/ \E sid \in StudentIds : Route(h, AddStudent(sid))
  \/ \E sid \in StudentIds : Route(h, AddStudentWithPhoto(sid))
  \/ \E c \in ClassInputs : Route(h, AddClass(c[1], c[2], c[3]))
  \/ \E d \in StudentDeleters, sid \in StudentIds : Route(h, DsLookup(d, sid))
  \/ \E d \in ClassDeleters, cid \in 1..MaxClassId : Route(h, DcLookup(d, cid))
  \/ \E sid \in QueryStudents : Route(h, GetReport(NoDate, NoDate, sid))

\* the request carries no token; it carries one that is forged or expired
WithoutToken(h) == Len(h) < 2 \/ h[2] = EmptyToken
FailsVerification(h) ==
  /\ ~WithoutToken(h)
  /\ h[2].sig # "signed" \/ h[2].exp <= clock

\* C17: a request to a bearer route without a token is answered 401 and
\* one whose token fails verification 403, and in that step no student,
\* class, attendance row or file changes and no handler starts or answers.
UnauthenticatedIsRejected ==
  [][\A h \in AuthHeaders :
       (BearerRequest(h) /\ (WithoutToken(h) \/ FailsVerification(h))) =>
         /\ authResp' = IF WithoutToken(h) THEN 401 ELSE 403
         /\ UNCHANGED <<students, classes, attendance, files, nextClassId,
                        nextAttId, pc, arg, photoPath, resp, repResp>>]_vars

\* a token was refused while a student with a photo, a class and an
\* attendance row existed and a student delete was under way, and all of
\* them are still there
RefusedWithDataPresent ==
  /\ authResp = 403
  /\ clock = 1
  /\ \E s \in students : s.photo_path \in files
  /\ classes # {}
  /\ attendance # {}
  /\ \E d \in StudentDeleters : pc[d] = "ds_del_att"
  /\ repResp.kind = "report" /\ Len(repResp.rows) = 1

\* C21: every connection a handler takes from the pool is given back before
\* the handler finishes, on every exit path: whenever no request is in
\* progress, no connection is checked out.
AllReleasedWhenIdle ==
  (\A q \in PoolReqs : ppc[q] = "idle") => checkedOut = 0

\* C30: the DELETE /api/classes handlers never get to where every connection
\* of the pool is held by a handler that waits, inside logActivity, for one
\* more connection.
NoDeleteClassDeadlock ==
  ~(/\ checkedOut = MaxConnections
    /\ Cardinality({q \in DeleteClassReqs : ppc[q] = "log_wait"})
         = MaxConnections)

\* C22: after an upload route has answered an error (400 or 500), the file
\* that request stored is not on disk.
FailedUploadLeavesNoFile ==
  (upResp.status \in {400, 500} /\ upResp.path # NoPath)
    => upResp.path \notin files

\* connections that were accepted and have emitted neither close nor error
LiveConnections ==
  {w \in Sockets : readyState[w] # "NONE" /\ wsEvents[w] = {}}

\* C23: the connection set holds exactly the connections that were accepted
\* and have not emitted close or error, in every reachable state; a close or
\* an error of a connection that has emitted one before leaves the set as
\* it is.
ConnectionSetIsLiveSet ==
  /\ [](connectedClients = LiveConnections)
  /\ [][\A w \in Sockets :
          (wsEvents[w] # {} /\ (WsError(w) \/ WsClose(w)))
            => connectedClients' = connectedClients]_vars

ClosedAfterErrorBesideLive ==
  \E w, v \in Sockets :
    /\ wsEvents[w] = {"error", "close"}
    /\ v \in connectedClients

\* C24: a ping on a connection is answered by one pong on that connection
\* and nothing on any other; any other frame (another type, no type, not
\* JSON) is answered by nothing; in both cases the connection set and every
\* connection's readyState stay as they are and the server keeps running.
PingAnsweredOnceOthersIgnored ==
  [][\A w \in Sockets, m \in InboundMessages :
       WsMessage(w, m) =>
         /\ outbox' = IF m.json /\ m.type = "ping"
                      THEN [outbox EXCEPT ![w] = Append(@, "pong")]
                      ELSE outbox
         /\ connectedClients' = connectedClients
         /\ readyState' = readyState
         /\ sendFailed' = sendFailed
         /\ crashed' = crashed /\ ~crashed]_vars

PongBesideSilentRegistration ==
  \E w, v \in Sockets :
    /\ w # v
    /\ outbox[w] = <<"connection_established", "pong">>
    /\ outbox[v] = <<"connection_established">>
    /\ wsTerminalId[v] = "T1"
    /\ {w, v} \subseteq connectedClients

\* C25: whenever auto mode is on and an operator is logged in, the
\* 30-second current-class poll is armed.
AutoModeKeepsPolling ==
  (isAutoMode /\ isLoggedIn) => classCheckInterval

\* C26: in auto mode with the camera on, the camera is stopped 2 minutes
\* after the polls began to report no current class: until then less than
\* 2 minutes have passed, and when they have the stop is due.
IdleCameraStoppedAfterTwoMinutes ==
  (isAutoMode /\ stream = "live" /\ idleTicks # NoTimer)
    => \/ idleTicks < IdleTicks
       \/ idleTicks = IdleTicks /\ idleLeft = 0

\* C27: in auto mode while the last poll reported a current class, the idle
\* timeout does not stop a running camera, and a poll that reports a
\* current class with the camera off starts it (camera access granted).
CameraKeptRunningDuringClass ==
  /\ [][(isAutoMode /\ lastPoll = "current" /\ stream = "live"
           /\ IdleTimeoutFires)
          => stream' = "live"]_vars
  /\ [][\A r \in PollResults :
          (/\ r.kind = "current"
           /\ stream # "live"
           /\ IntervalFires(r, TRUE)
           /\ isAutoMode /\ isLoggedIn)
            => stream' = "live"]_vars

\* the page's WebSockets that have not closed
LiveSockets == {i \in 1..Len(sockets) : sockets[i] # "CLOSED"}

\* C28: the terminal page has at most one WebSocket that has not closed and
\* at most one pending reconnect timeout, and always one or the other (it
\* never gives up); a step that closes a socket sets exactly one timeout, of
\* 5 seconds, and no other step sets one.
OneLinkOrOneRetry ==
  /\ [](/\ Cardinality(LiveSockets) <= 1
        /\ Len(reconnects) <= 1
        /\ Cardinality(LiveSockets) + Len(reconnects) = 1)
  /\ [][IF \E i \in 1..Len(sockets) :
             sockets[i] # "CLOSED" /\ sockets'[i] = "CLOSED"
        THEN reconnects' = Append(reconnects, ReconnectSeconds)
        ELSE Len(reconnects') <= Len(reconnects)]_vars

\* two sockets have closed and been replaced; the third was open and has
\* failed, its close event still to come
RetriedTwiceAndFailedAgain ==
  /\ Len(sockets) = 3
  /\ sockets[3] = "FAILED"
  /\ connStatus = "connected"
  /\ reconnects = <<>>
  /\ ~backendUp

\* C29: every connection of the terminal server that is open is the
\* registry's entry for its id (so getConnectedTerminals lists the id, and
\* broadcast and sendToTerminal reach the connection), and every id listed
\* maps to a connection that has not closed.
RegistryHoldsEveryOpenTerminal ==
  /\ \A s \in TermSockets :
       tsReady[s] = "OPEN" =>
         /\ MapValue(terminals, tsId[s]) = s
         /\ \E i \in 1..Len(getConnectedTerminals) :
              getConnectedTerminals[i] = tsId[s]
         /\ s \in broadcastTargets(NoArg)
  /\ \A id \in MapKeys(terminals) :
       tsReady[MapValue(terminals, id)] # "CLOSED"
====
